---- MODULE Spec2Model ----
(***************************************************************************)
(* The model-mapping cache service (src/services/cache/model_cache.py):    *)
(* cache-first lookups of Model / GlobalModel snapshots, the resolution of *)
(* a provider-supplied model name to a GlobalModel, and the invalidation   *)
(* of cache entries.                                                       *)
(*                                                                         *)
(* Strings are sequences of one-character strings, so that str.strip() and *)
(* the ordering of names are computed, not assumed.  A cache key           *)
(* f"<prefix>:{x}" is the record of its prefix and its arguments.  The     *)
(* cache is a partial function from keys to values: a key outside its      *)
(* domain is a cache miss.                                                 *)
(***************************************************************************)
EXTENDS Integers, Sequences, FiniteSets, TLC

VARIABLES
    providers,      \* Provider rows:    id -> [is_active]
    models,         \* Model rows:       id -> [provider_id, global_model_id, ...]
    global_models,  \* GlobalModel rows: id -> [name, is_active]
    dialect,        \* "postgresql" (JSONB @> works) or "sqlite" (it raises)
    cache,          \* CacheService: key -> value, partial
    call,           \* per worker: the call in progress, or the outcome of its last call
    returned,       \* history: name -> the GlobalModels resolves of the name have
                    \* returned since its resolve key was last deleted or expired
    engine          \* the header rule engine: the call of apply_header_rules or
                    \* validate_header_rules in progress, or its outcome

vars == <<providers, models, global_models, dialect, cache, call, returned, engine>>
resolver == <<providers, models, global_models, dialect, cache, call, returned>>
db == <<providers, models, global_models, dialect>>

----------------------------------------------------------------------------
(* Strings *)

\* How many spaces may surround a name given as input or stored as an alias.
MaxPad == 1

CodePoint(c) == CASE c = " " -> 32 [] c = "a" -> 97 [] c = "b" -> 98

RECURSIVE lstrip(_)
lstrip(s) == IF s # <<>> /\ Head(s) = " " THEN lstrip(Tail(s)) ELSE s

RECURSIVE rstrip(_)
rstrip(s) == IF s # <<>> /\ s[Len(s)] = " " THEN rstrip(SubSeq(s, 1, Len(s) - 1)) ELSE s

\* str.strip(): leading and trailing whitespace removed.
strip(s) == rstrip(lstrip(s))

\* Python's s < t on strings: lexicographic by code point, a prefix is smaller.
RECURSIVE StrLess(_, _)
StrLess(s, t) ==
    IF t = <<>> THEN FALSE
    ELSE IF s = <<>> THEN TRUE
    ELSE IF Head(s) = Head(t) THEN StrLess(Tail(s), Tail(t))
    ELSE CodePoint(Head(s)) < CodePoint(Head(t))

Spaces(k) == [i \in 1..k |-> " "]
Pad(l, s, r) == Spaces(l) \o s \o Spaces(r)

NameA == <<"a">>
NameAB == <<"a", "b">>
NameB == <<"b">>
Empty == <<>>

\* The names callers pass to the resolver, and their normalised forms.
CoreNames == {Empty, NameA, NameAB}
RawNames == {Pad(l, c, r) : l \in 0..MaxPad, r \in 0..MaxPad, c \in CoreNames}

----------------------------------------------------------------------------
(* The datastore *)

ProviderIds == {"p1", "p2"}
ModelIds == {"m1", "m2"}
GlobalModelIds == {"g1", "g2"}
Workers == {"w1", "w2"}

\* Alias entries {"name": ...} as the datastore may hold them.
AliasNames == {Pad(k, c, k) : k \in 0..MaxPad, c \in {NameA, NameAB}}
AliasEntry(s) == [name |-> s]
AliasLists ==
    {<<>>} \cup {<<AliasEntry(s)>> : s \in AliasNames}
           \cup {<<AliasEntry(NameAB), AliasEntry(NameA)>>}

ModelRow(p, g, n, al, act) ==
    [provider_id |-> p, global_model_id |-> g, provider_model_name |-> n,
     provider_model_aliases |-> al, is_active |-> act]

\* Provider JOIN Model JOIN GlobalModel, all three active (lines 288-295, 311-319).
ActiveJoin ==
    {m \in DOMAIN models :
        /\ models[m].provider_id \in DOMAIN providers
        /\ models[m].global_model_id \in DOMAIN global_models
        /\ providers[models[m].provider_id].is_active
        /\ models[m].is_active
        /\ global_models[models[m].global_model_id].is_active}

\* Model.provider_model_aliases @> '[{"name": n}]': an entry whose name is n.
JsonbContains(aliases, n) == \E i \in 1..Len(aliases) : aliases[i].name = n

\* The rows the mapping query returns: the JSONB query, or, where the
\* operator is unsupported, every active joined row.
models_with_global(n) ==
    IF dialect = "postgresql"
    THEN {m \in ActiveJoin :
            \/ models[m].provider_model_name = n
            \/ JsonbContains(models[m].provider_model_aliases, n)}
    ELSE ActiveJoin

\* The number of datastore round trips of the mapping query.
\* The mapping query with each query retried once: a mutation.
MappingRoundTrips_retried == IF dialect = "postgresql" THEN 2 ELSE 3

MappingRoundTrips == IF dialect = "postgresql" THEN 1 ELSE 2

\* The alias loop of lines 332-343.
AliasLoopMatches(aliases, n) ==
    \E i \in 1..Len(aliases) : strip(aliases[i].name) = n

\* A row classified with provider_model_name preferred: a mutation of match_type.
match_type_pname_first(m, n) ==
    IF models[m].provider_model_name = n THEN "provider_model_name"
    ELSE IF AliasLoopMatches(models[m].provider_model_aliases, n) THEN "alias"
    ELSE "none"

\* The match kind a row ends with in matched_models_dict (lines 328-354).
match_type(m, n) ==
    IF AliasLoopMatches(models[m].provider_model_aliases, n) THEN "alias"
    ELSE IF models[m].provider_model_name = n THEN "provider_model_name"
    ELSE "none"

\* The classification loop of lines 328-354 over the rows a query returned.
matched_rows(rows, n) ==
    {[model |-> m, gm |-> models[m].global_model_id, match_type |-> match_type(m, n)] :
        m \in {x \in rows : match_type(x, n) # "none"}}

\* matched_models_dict: one entry per (Model id, GlobalModel id).
matched_models_dict(n) == matched_rows(models_with_global(n), n)

priority(t) == IF t = "alias" THEN 0 ELSE 1

\* The sort key of lines 362-367: (priority, GlobalModel.name).
SortKeyLeq(x, y) ==
    \/ priority(x.match_type) < priority(y.match_type)
    \/ /\ priority(x.match_type) = priority(y.match_type)
       /\ ~StrLess(global_models[y.gm].name, global_models[x.gm].name)

\* The entries that may stand first after the sort (ties keep row order,
\* which the datastore does not fix).
\* Any candidate taken for the first: a mutation.
SortedFirst_unsorted(matched) == matched

SortedFirst(matched) == {x \in matched : \A y \in matched : SortKeyLeq(x, y)}

\* The conflict test without the unique_models step: a mutation of Conflict.
Conflict_any_two(matched) == Cardinality(matched) > 1

\* len(matched_global_models) > 1 and len(unique_models) > 1 (lines 372-375).
Conflict(matched) == Cardinality(matched) > 1 /\ Cardinality({x.gm : x \in matched}) > 1

\* The direct match without the is_active filter: a mutation of DirectMatch.
DirectMatch_any_state(n) == {g \in DOMAIN global_models : global_models[g].name = n}

\* db.query(GlobalModel).filter(name == n, is_active).first() (lines 396-400).
DirectMatch(n) ==
    {g \in DOMAIN global_models : global_models[g].name = n /\ global_models[g].is_active}

----------------------------------------------------------------------------
(* The cache *)

ResolveKey(n) == [prefix |-> "global_model:resolve", name |-> n]
ModelIdKey(id) == [prefix |-> "model:id", model_id |-> id]
GlobalModelIdKey(id) == [prefix |-> "global_model:id", global_model_id |-> id]
GlobalModelNameKey(n) == [prefix |-> "global_model:name", name |-> n]
ProviderGlobalKey(p, g) ==
    [prefix |-> "model:provider_global", provider_id |-> p, global_model_id |-> g]

NOT_FOUND == [sentinel |-> "NOT_FOUND"]

\* _global_model_to_dict: the snapshot written to the cache.
global_model_to_dict(g) ==
    [id |-> g, name |-> global_models[g].name, is_active |-> global_models[g].is_active,
     supported_capabilities |-> "caps"]

\* _dict_to_global_model: the object rebuilt from a cached snapshot.
dict_to_global_model(d) ==
    [id |-> d.id, name |-> d.name, is_active |-> d.is_active,
     supported_capabilities |->
        IF "supported_capabilities" \in DOMAIN d THEN d.supported_capabilities ELSE "[]"]

\* _model_to_dict and _dict_to_model.
model_to_dict(m) ==
    [id |-> m, provider_id |-> models[m].provider_id,
     global_model_id |-> models[m].global_model_id,
     provider_model_name |-> models[m].provider_model_name,
     provider_model_aliases |-> models[m].provider_model_aliases,
     is_active |-> models[m].is_active]
dict_to_model(d) ==
    [id |-> d.id, provider_id |-> d.provider_id, global_model_id |-> d.global_model_id,
     provider_model_name |-> d.provider_model_name,
     provider_model_aliases |-> d.provider_model_aliases, is_active |-> d.is_active]

\* A snapshot written before supported_capabilities was added to the shape.
LegacyDict(g, n) == [id |-> g, name |-> n, is_active |-> TRUE]

Cached(key) == key \in DOMAIN cache
CacheSet(key, value) == [k \in DOMAIN cache \cup {key} |-> IF k = key THEN value ELSE cache[k]]
CacheDelete(keys) == [k \in DOMAIN cache \ keys |-> cache[k]]

----------------------------------------------------------------------------
(* The state of one call *)

\* The header rule engine before any call.
EngineIdle == [pc |-> "idle", op |-> "none"]

None == "None"
Missing == [missing |-> TRUE]
NoArgs == [none |-> TRUE]

Idle ==
    [pc |-> "idle", op |-> "none", args |-> NoArgs, name |-> Empty,
     cached_data |-> Missing, method |-> "not_found", cache_hit |-> FALSE,
     result |-> None, value |-> NOT_FOUND, conflicts |-> 0, reads |-> 0, queries |-> 0,
     writes |-> 0, outcomes |-> <<>>, durations |-> <<>>, caught |-> "none",
     raised |-> FALSE, after |-> {}, deleted |-> {}]

CacheGet(key) == IF Cached(key) THEN cache[key] ELSE Missing

\* In a call state, after and deleted are history: what resolves of the name
\* had returned when the call started, and the entries an invalidation removed.

\* History: the call state c returns a GlobalModel for its name.
Returns(c) ==
    IF c.op = "resolve" /\ c.pc = "done" /\ c.result # None
    THEN [returned EXCEPT ![c.name] = @ \cup {c.result}]
    ELSE returned

\* History: the resolve keys among keys are deleted.
Forget(keys) == [n \in DOMAIN returned |-> IF ResolveKey(n) \in keys THEN {} ELSE returned[n]]

----------------------------------------------------------------------------
(* resolve_global_model_by_name_or_alias, one action per await *)

\* The finally block (lines 421-429): one outcome count, one duration observation.
Finally(c) ==
    [c EXCEPT !.pc = "done",
              !.outcomes = Append(c.outcomes, <<c.method, c.cache_hit>>),
              !.durations = Append(c.durations, c.method)]

\* The cache read with the sentinel taken for a miss: a mutation.
ResolveCacheRead_sentinel_refetch(n) ==
    LET c == [Idle EXCEPT !.op = "resolve", !.name = n, !.reads = 1,
                          !.cached_data = CacheGet(ResolveKey(n))]
    IN  IF c.cached_data # Missing /\ c.cached_data # NOT_FOUND
             /\ "supported_capabilities" \in DOMAIN c.cached_data
        THEN Finally([c EXCEPT !.cache_hit = TRUE, !.method = "direct_match",
                               !.result = c.cached_data.id])
        ELSE [c EXCEPT !.pc = "query"]

\* The cache read with every snapshot taken for stale: a mutation.
ResolveCacheRead_snapshot_refetch(n) ==
    LET c == [Idle EXCEPT !.op = "resolve", !.name = n, !.reads = 1,
                          !.cached_data = CacheGet(ResolveKey(n))]
    IN  IF c.cached_data = NOT_FOUND
        THEN Finally([c EXCEPT !.cache_hit = TRUE, !.method = "not_found"])
        ELSE [c EXCEPT !.pc = "query"]

\* The cache read with an entry of any shape returned: a mutation.
ResolveCacheRead_trust_stale(n) ==
    LET c == [Idle EXCEPT !.op = "resolve", !.name = n, !.reads = 1,
                          !.cached_data = CacheGet(ResolveKey(n))]
    IN  IF c.cached_data # Missing
        THEN IF c.cached_data = NOT_FOUND
             THEN Finally([c EXCEPT !.cache_hit = TRUE, !.method = "not_found"])
             ELSE Finally([c EXCEPT !.cache_hit = TRUE, !.method = "direct_match",
                                    !.result = c.cached_data.id])
        ELSE [c EXCEPT !.pc = "query"]

\* Lines 255-274: the cache read; a sentinel or a snapshot of the current
\* shape is returned at once, anything else goes on to the datastore.
ResolveCacheRead(n) ==
    LET c == [Idle EXCEPT !.op = "resolve", !.name = n, !.reads = 1,
                          !.cached_data = CacheGet(ResolveKey(n))]
    IN  IF c.cached_data # Missing
        THEN IF c.cached_data = NOT_FOUND
             THEN Finally([c EXCEPT !.cache_hit = TRUE, !.method = "not_found"])
             ELSE IF "supported_capabilities" \notin DOMAIN c.cached_data
             THEN [c EXCEPT !.pc = "query"]
             ELSE Finally([c EXCEPT !.cache_hit = TRUE, !.method = "direct_match",
                                    !.result = c.cached_data.id])
        ELSE [c EXCEPT !.pc = "query"]

\* Lines 247-274 without the early return for an empty name: a mutation.
ResolveEnter_no_empty_check(n) == ResolveCacheRead(n)

\* Lines 247-274: return at once for an empty name (before the try block),
\* else read the cache.  The value is the worker's next call state.
ResolveEnter(n) ==
    IF n = Empty
    THEN [Idle EXCEPT !.pc = "done", !.op = "resolve", !.name = n]
    ELSE ResolveCacheRead(n)

ResolveStart(w, model_name) ==
    /\ call[w].pc \in {"idle", "done"}
    /\ LET normalized_name == strip(model_name)
           c == [ResolveEnter(normalized_name) EXCEPT !.after = returned[normalized_name]]
       IN  /\ call' = [call EXCEPT ![w] = c]
           /\ returned' = Returns(c)
    /\ UNCHANGED <<db, cache>>
    /\ UNCHANGED engine

\* Lines 276-393: the mapping query, the classification, the sort, the
\* conflict signal and the choice of the first candidate.
\* Lines 356-393 on the candidates matched, c being the call after its query.
ResolveMatched(w, c, matched) ==
    IF matched # {}
    THEN \E first \in SortedFirst(matched) :
           call' = [call EXCEPT ![w] =
               [c EXCEPT !.pc = "set",
                         !.method = first.match_type,
                         !.conflicts = IF Conflict(matched) THEN @ + 1 ELSE @,
                         !.result = first.gm,
                         !.value = global_model_to_dict(first.gm)]]
    ELSE call' = [call EXCEPT ![w] = [c EXCEPT !.pc = "direct"]]

ResolveQuery(w) ==
    /\ call[w].pc = "query"
    /\ LET c == [call[w] EXCEPT !.queries = @ + MappingRoundTrips,
                                !.caught = IF dialect = "postgresql" THEN "none"
                                           ELSE "jsonb_unsupported"]
       IN  ResolveMatched(w, c, matched_models_dict(c.name))
    /\ UNCHANGED <<db, cache, returned>>
    /\ UNCHANGED engine

\* Lines 304-321 where the JSONB operator is supported: the JSONB query raises
\* an OperationalError or ProgrammingError for another reason (a lost
\* connection, a timeout), the except clause catches it by its class, and
\* the fallback query succeeds.
ResolveQueryFallback(w) ==
    /\ call[w].pc = "query"
    /\ dialect = "postgresql"
    /\ LET c == [call[w] EXCEPT !.queries = @ + 2, !.caught = "operational"]
       IN  ResolveMatched(w, c, matched_rows(ActiveJoin, c.name))
    /\ UNCHANGED <<db, cache, returned>>
    /\ UNCHANGED engine

\* Lines 395-419: the direct match on GlobalModel.name, else not found.
ResolveDirect(w) ==
    /\ call[w].pc = "direct"
    /\ LET c == [call[w] EXCEPT !.queries = @ + 1]
       IN  IF DirectMatch(c.name) # {}
           THEN \E g \in DirectMatch(c.name) :
                  call' = [call EXCEPT ![w] =
                      [c EXCEPT !.pc = "set", !.method = "direct_match",
                                !.result = g, !.value = global_model_to_dict(g)]]
           ELSE call' = [call EXCEPT ![w] =
                      [c EXCEPT !.pc = "set", !.method = "not_found",
                                !.result = None, !.value = NOT_FOUND]]
    /\ UNCHANGED <<db, cache, returned>>
    /\ UNCHANGED engine

\* A datastore error answered by caching not found: a mutation.
ResolveDbError_negative_cache(w) ==
    /\ call[w].pc \in {"query", "direct"}
    /\ call' = [call EXCEPT ![w] =
            Finally([call[w] EXCEPT !.queries = @ + 1, !.raised = TRUE])]
    /\ cache' = CacheSet(ResolveKey(call[w].name), NOT_FOUND)
    /\ UNCHANGED <<db, returned>>
    /\ UNCHANGED engine

\* A datastore error that is not caught: raised by the direct-match query, by
\* the JSONB query with a class other than OperationalError / ProgrammingError
\* (one round trip), or by the fallback query (two).  It propagates through
\* finally.
ResolveDbError(w) ==
    /\ call[w].pc \in {"query", "direct"}
    /\ \E k \in 1..(IF call[w].pc = "query" THEN 2 ELSE 1) :
          call' = [call EXCEPT ![w] =
              Finally([call[w] EXCEPT !.queries = @ + k, !.raised = TRUE])]
    /\ UNCHANGED <<db, cache, returned>>
    /\ UNCHANGED engine

\* The write made only when the datastore still gives the result the call
\* holds: a mutation.
ResolveSet_revalidated(w) ==
    /\ call[w].pc = "set"
    /\ LET c == Finally([call[w] EXCEPT !.writes = @ + 1])
           matched == matched_models_dict(c.name)
           current == IF matched # {} THEN {x.gm : x \in SortedFirst(matched)}
                      ELSE IF DirectMatch(c.name) # {} THEN DirectMatch(c.name)
                      ELSE {None}
       IN  /\ cache' = IF c.result \in current THEN CacheSet(ResolveKey(c.name), c.value)
                       ELSE cache
           /\ call' = [call EXCEPT ![w] = c]
           /\ returned' = Returns(c)
    /\ UNCHANGED db
    /\ UNCHANGED engine

\* CacheService.set under the resolve key, then finally and return.
ResolveSet(w) ==
    /\ call[w].pc = "set"
    /\ LET c == Finally([call[w] EXCEPT !.writes = @ + 1])
       IN  /\ cache' = CacheSet(ResolveKey(c.name), c.value)
           /\ call' = [call EXCEPT ![w] = c]
           /\ returned' = Returns(c)
    /\ UNCHANGED db
    /\ UNCHANGED engine

----------------------------------------------------------------------------
(* get_model_by_id, get_global_model_by_id,                                *)
(* get_model_by_provider_and_global_model, get_global_model_by_name        *)

ModelOps == {"get_model_by_id", "get_model_by_provider_and_global_model"}
GlobalModelOps == {"get_global_model_by_id", "get_global_model_by_name"}
GetOps == ModelOps \cup GlobalModelOps

\* cache_key of each operation (lines 41, 72, 108, 151).
GetKey(op, a) ==
    CASE op = "get_model_by_id" -> ModelIdKey(a.model_id)
      [] op = "get_global_model_by_id" -> GlobalModelIdKey(a.global_model_id)
      [] op = "get_model_by_provider_and_global_model" ->
            ProviderGlobalKey(a.provider_id, a.global_model_id)
      [] op = "get_global_model_by_name" -> GlobalModelNameKey(a.name)

\* The datastore lookup of each operation (lines 50, 81, 119-127, 160).
GetLookup(op, a) ==
    CASE op = "get_model_by_id" -> {m \in DOMAIN models : m = a.model_id}
      [] op = "get_global_model_by_id" ->
            {g \in DOMAIN global_models : g = a.global_model_id}
      [] op = "get_model_by_provider_and_global_model" ->
            {m \in DOMAIN models :
                /\ models[m].provider_id = a.provider_id
                /\ models[m].global_model_id = a.global_model_id
                /\ models[m].is_active}
      [] op = "get_global_model_by_name" ->
            {g \in DOMAIN global_models : global_models[g].name = a.name}

GetToDict(op, id) == IF op \in ModelOps THEN model_to_dict(id) ELSE global_model_to_dict(id)
GetFromDict(op, d) == IF op \in ModelOps THEN dict_to_model(d) ELSE dict_to_global_model(d)

\* A lookup that found nothing, cached negatively as the resolver does: a mutation.
GetNotFound_negative_cache(c) == [c EXCEPT !.pc = "get_set", !.result = None, !.value = NOT_FOUND]

\* A lookup that found nothing returns None; nothing is written.
GetNotFound(c) == [c EXCEPT !.pc = "done", !.result = None]

\* The cache read; a hit returns the object rebuilt from the snapshot.
GetStart(w, op, a) ==
    /\ call[w].pc \in {"idle", "done"}
    /\ LET c == [Idle EXCEPT !.op = op, !.args = a, !.reads = 1,
                             !.cached_data = CacheGet(GetKey(op, a))]
       IN  call' = [call EXCEPT ![w] =
              IF c.cached_data # Missing
              THEN [c EXCEPT !.pc = "done", !.cache_hit = TRUE,
                             !.result = c.cached_data.id,
                             !.value = GetFromDict(op, c.cached_data)]
              ELSE [c EXCEPT !.pc = "get_query"]]
    /\ UNCHANGED <<db, cache, returned>>
    /\ UNCHANGED engine

\* The datastore lookup and, when it found a row, its snapshot.
GetQuery(w) ==
    /\ call[w].pc = "get_query"
    /\ LET c == [call[w] EXCEPT !.queries = @ + 1]
           found == GetLookup(c.op, c.args)
       IN  IF found = {}
           THEN call' = [call EXCEPT ![w] = GetNotFound(c)]
           ELSE \E id \in found :
                  call' = [call EXCEPT ![w] =
                      [c EXCEPT !.pc = "get_set", !.result = id,
                                !.value = GetToDict(c.op, id)]]
    /\ UNCHANGED <<db, cache, returned>>
    /\ UNCHANGED engine

\* CacheService.set under the operation's own key, then return.
GetSet(w) ==
    /\ call[w].pc = "get_set"
    /\ cache' = CacheSet(GetKey(call[w].op, call[w].args), call[w].value)
    /\ call' = [call EXCEPT ![w] = [call[w] EXCEPT !.pc = "done", !.writes = @ + 1]]
    /\ UNCHANGED <<db, returned>>
    /\ UNCHANGED engine

----------------------------------------------------------------------------
(* invalidate_model_cache, invalidate_global_model_cache                   *)
(* Optional arguments: None for an id; a falsy name (None or "") is Empty; *)
(* a falsy alias list (None or []) is <<>>.  The deletes of one call are   *)
(* taken together, in one step after the call.                             *)

\* The resolve keys of the aliases taken as stored, untrimmed: a mutation.
AliasResolveKeys_untrimmed(aliases) ==
    {ResolveKey(aliases[i].name) : i \in {j \in 1..Len(aliases) : aliases[j].name # Empty}}

\* Lines 205-210: the resolve key of every alias entry's trimmed name.
AliasResolveKeys(aliases) ==
    {ResolveKey(strip(aliases[i].name)) :
        i \in {j \in 1..Len(aliases) : strip(aliases[j].name) # Empty}}

\* Lines 189-213: the keys invalidate_model_cache deletes.
InvalidateModelKeys(model_id, provider_id, global_model_id, provider_model_name, provider_model_aliases) ==
    {ModelIdKey(model_id)}
    \cup (IF provider_id # None /\ global_model_id # None
          THEN {ProviderGlobalKey(provider_id, global_model_id)} ELSE {})
    \cup (IF provider_model_name # Empty THEN {ResolveKey(provider_model_name)} ELSE {})
    \cup AliasResolveKeys(provider_model_aliases)

\* The call: the arguments are bound.
InvalidateModelCacheCall(w, model_id, provider_id, global_model_id, provider_model_name, provider_model_aliases) ==
    /\ call[w].pc \in {"idle", "done"}
    /\ call' = [call EXCEPT ![w] =
          [Idle EXCEPT !.pc = "invalidate", !.op = "invalidate_model_cache",
                       !.args = [model_id |-> model_id, provider_id |-> provider_id,
                                 global_model_id |-> global_model_id,
                                 provider_model_name |-> provider_model_name,
                                 provider_model_aliases |-> provider_model_aliases]]]
    /\ UNCHANGED <<db, cache, returned>>
    /\ UNCHANGED engine

\* The body: the deletes, then return.
InvalidateModelCache(w) ==
    /\ call[w].pc = "invalidate"
    /\ call[w].op = "invalidate_model_cache"
    /\ LET a == call[w].args
           keys == InvalidateModelKeys(a.model_id, a.provider_id, a.global_model_id,
                                       a.provider_model_name, a.provider_model_aliases)
       IN  /\ cache' = CacheDelete(keys)
           /\ returned' = Forget(keys)
    /\ call' = [call EXCEPT ![w] =
          [call[w] EXCEPT !.pc = "done", !.deleted = DOMAIN cache \ DOMAIN cache']]
    /\ UNCHANGED db
    /\ UNCHANGED engine

\* The keys deleted without the resolve key of the name: a mutation.
InvalidateGlobalModelKeys_no_resolve(global_model_id, name) ==
    {GlobalModelIdKey(global_model_id)}
    \cup (IF name # Empty THEN {GlobalModelNameKey(name)} ELSE {})

\* The keys deleted together with every resolve key that holds a snapshot
\* of the GlobalModel: a mutation.
InvalidateGlobalModelKeys_every_resolve_key(global_model_id, name) ==
    {GlobalModelIdKey(global_model_id)}
    \cup (IF name # Empty THEN {GlobalModelNameKey(name), ResolveKey(name)} ELSE {})
    \cup {k \in DOMAIN cache :
            /\ k.prefix = "global_model:resolve"
            /\ cache[k] # NOT_FOUND
            /\ cache[k].id = global_model_id}

\* Lines 221-225: the keys invalidate_global_model_cache deletes.
InvalidateGlobalModelKeys(global_model_id, name) ==
    {GlobalModelIdKey(global_model_id)}
    \cup (IF name # Empty THEN {GlobalModelNameKey(name), ResolveKey(name)} ELSE {})

InvalidateGlobalModelCacheCall(w, global_model_id, name) ==
    /\ call[w].pc \in {"idle", "done"}
    /\ call' = [call EXCEPT ![w] =
          [Idle EXCEPT !.pc = "invalidate", !.op = "invalidate_global_model_cache",
                       !.args = [global_model_id |-> global_model_id, name |-> name]]]
    /\ UNCHANGED <<db, cache, returned>>
    /\ UNCHANGED engine

InvalidateGlobalModelCache(w) ==
    /\ call[w].pc = "invalidate"
    /\ call[w].op = "invalidate_global_model_cache"
    /\ LET keys == InvalidateGlobalModelKeys(call[w].args.global_model_id, call[w].args.name)
       IN  /\ cache' = CacheDelete(keys)
           /\ returned' = Forget(keys)
    /\ call' = [call EXCEPT ![w] =
          [call[w] EXCEPT !.pc = "done", !.deleted = DOMAIN cache \ DOMAIN cache']]
    /\ UNCHANGED db
    /\ UNCHANGED engine

----------------------------------------------------------------------------
(* The collaborators: the cache backend's TTL and the administrative       *)
(* process that updates the datastore                                      *)

\* An entry reaches its TTL (ttl_seconds = CACHE_TTL) and is gone.
Expire(key) ==
    /\ key \in DOMAIN cache
    /\ cache' = CacheDelete({key})
    /\ returned' = Forget({key})
    /\ UNCHANGED <<db, call>>
    /\ UNCHANGED engine

AdminSetAliases(m, aliases) ==
    /\ models[m].provider_model_aliases # aliases
    /\ models' = [models EXCEPT ![m].provider_model_aliases = aliases]
    /\ UNCHANGED <<providers, global_models, dialect, cache, call, returned>>
    /\ UNCHANGED engine

AdminSetGlobalModelActive(g, active) ==
    /\ global_models[g].is_active # active
    /\ global_models' = [global_models EXCEPT ![g].is_active = active]
    /\ UNCHANGED <<providers, models, dialect, cache, call, returned>>
    /\ UNCHANGED engine

----------------------------------------------------------------------------
(* The header rule engine (src/core/header_rules.py)                       *)
(* A dict is the sequence of its items in insertion order, its keys        *)
(* distinct.  A header name or value is a sequence of characters.          *)

\* str.lower() on the characters used.
LowerChar(c) == CASE c = "A" -> "a" [] c = "B" -> "b" [] OTHER -> c
lower(s) == [i \in 1..Len(s) |-> LowerChar(s[i])]

Item(k, v) == [name |-> k, value |-> v]
Keys(d) == {d[i].name : i \in 1..Len(d)}
DictDel(d, k) == SelectSeq(d, LAMBDA e : e.name # k)
DictSet(d, k, v) ==
    IF k \in Keys(d)
    THEN [i \in 1..Len(d) |-> IF d[i].name = k THEN Item(k, v) ELSE d[i]]
    ELSE Append(d, Item(k, v))

\* The index of the first item whose name matches case-insensitively, or 0.
FirstMatch(d, name) ==
    IF \E i \in 1..Len(d) : lower(d[i].name) = lower(name)
    THEN CHOOSE i \in 1..Len(d) :
            /\ lower(d[i].name) = lower(name)
            /\ \A j \in 1..(i - 1) : lower(d[j].name) # lower(name)
    ELSE 0

\* Step 1 with the names compared exactly: a mutation.
RECURSIVE RemoveAll_exact(_, _)
RemoveAll_exact(result, remove) ==
    IF remove = <<>> THEN result
    ELSE RemoveAll_exact(SelectSeq(result, LAMBDA e : e.name # Head(remove)), Tail(remove))

\* Lines 105-110: every header matching an entry of remove is deleted.
RECURSIVE RemoveAll(_, _)
RemoveAll(result, remove) ==
    IF remove = <<>> THEN result
    ELSE RemoveAll(SelectSeq(result, LAMBDA e : lower(e.name) # lower(Head(remove))),
                   Tail(remove))

\* One pair renaming every matching header: a mutation.
RECURSIVE RenameOne_every(_, _, _)
RenameOne_every(result, old_name, new_name) ==
    LET i == FirstMatch(result, old_name)
    IN  IF i = 0 \/ lower(new_name) = lower(old_name) THEN result
        ELSE RenameOne_every(DictSet(DictDel(result, result[i].name), new_name,
                                     result[i].value), old_name, new_name)

\* Lines 116-120: the first matching header is popped and its value stored
\* under the new name.
RenameOne(result, old_name, new_name) ==
    LET i == FirstMatch(result, old_name)
    IN  IF i = 0 THEN result
        ELSE DictSet(DictDel(result, result[i].name), new_name, result[i].value)

\* Lines 113-120: the pairs of replace_name in order.
RECURSIVE RenameAll(_, _)
RenameAll(result, replace_name) ==
    IF replace_name = <<>> THEN result
    ELSE RenameAll(RenameOne(result, Head(replace_name).name, Head(replace_name).value),
                   Tail(replace_name))

\* re.compile fails on an unterminated character set.
Compiles(search) == \A i \in 1..Len(search) : search[i] # "["
\* A replacement template with a group reference the pattern has no group for.
BadTemplate(replace) == \E i \in 1..Len(replace) : replace[i] = "\\"

StartsWith(s, search, case_sensitive) ==
    /\ Len(search) <= Len(s)
    /\ IF case_sensitive THEN SubSeq(s, 1, Len(search)) = search
       ELSE lower(SubSeq(s, 1, Len(search))) = lower(search)

\* Every non-overlapping occurrence of a non-empty search, left to right.
RECURSIVE ReplaceAll(_, _, _, _)
ReplaceAll(s, search, replace, case_sensitive) ==
    IF s = <<>> THEN <<>>
    ELSE IF StartsWith(s, search, case_sensitive)
    THEN replace \o ReplaceAll(SubSeq(s, Len(search) + 1, Len(s)), search, replace,
                               case_sensitive)
    ELSE <<Head(s)>> \o ReplaceAll(Tail(s), search, replace, case_sensitive)

\* _apply_replace_value with the error of re.sub let through: a mutation.
apply_replace_value_uncaught(original, rule) ==
    IF rule.regex
    THEN IF ~Compiles(rule.search) \/ BadTemplate(rule.replace)
         THEN [value |-> original, raised |-> TRUE]
         ELSE [value |-> ReplaceAll(original, rule.search, rule.replace, rule.case_sensitive),
               raised |-> FALSE]
    ELSE IF rule.case_sensitive
    THEN [value |-> ReplaceAll(original, rule.search, rule.replace, TRUE), raised |-> FALSE]
    ELSE IF BadTemplate(rule.replace)
    THEN [value |-> original, raised |-> TRUE]
    ELSE [value |-> ReplaceAll(original, rule.search, rule.replace, FALSE), raised |-> FALSE]

\* _apply_replace_value (lines 149-176): the new value, or re.error raised.
\* A pattern of the bounds that compiles is a literal.
apply_replace_value(original, rule) ==
    IF rule.regex
    THEN IF ~Compiles(rule.search) \/ BadTemplate(rule.replace)
         THEN [value |-> original, raised |-> FALSE]
         ELSE [value |-> ReplaceAll(original, rule.search, rule.replace, rule.case_sensitive),
               raised |-> FALSE]
    ELSE IF rule.case_sensitive
    THEN [value |-> ReplaceAll(original, rule.search, rule.replace, TRUE), raised |-> FALSE]
    ELSE IF BadTemplate(rule.replace)
    THEN [value |-> original, raised |-> TRUE]
    ELSE [value |-> ReplaceAll(original, rule.search, rule.replace, FALSE), raised |-> FALSE]

\* ReplaceValueRule(**value_rule) validates: search and replace are required.
\* validate_search reads regex from info.data, which holds the fields
\* validated before search, that is none: it never compiles the pattern.
WellFormed(fields) == {"search", "replace"} \subseteq DOMAIN fields

\* Lines 123-137: the entries of replace_value in order; ValidationError of
\* line 130 and re.error of line 176 are not caught.
RECURSIVE ReplaceValues(_, _)
ReplaceValues(result, replace_value) ==
    IF replace_value = <<>> THEN [result |-> result, raised |-> FALSE]
    ELSE LET value_rule == Head(replace_value)
             i == FirstMatch(result, value_rule.name)
         IN  IF i = 0 THEN ReplaceValues(result, Tail(replace_value))
             ELSE IF value_rule.type = "dict" /\ ~WellFormed(value_rule.fields)
             THEN [result |-> result, raised |-> TRUE]
             ELSE LET r == apply_replace_value(result[i].value, value_rule.fields)
                  IN  IF r.raised THEN [result |-> result, raised |-> TRUE]
                      ELSE ReplaceValues(DictSet(result, result[i].name, r.value),
                                         Tail(replace_value))

\* Step 4 storing the value whether or not the name exists: a mutation.
AddOne_overwrite(result, key, value) == DictSet(result, key, value)

\* Lines 143-144: the value is stored only under a name that is not a key.
AddOne(result, key, value) == IF key \notin Keys(result) THEN Append(result, Item(key, value)) ELSE result

\* Lines 140-144: the items of add in order.
RECURSIVE AddAll(_, _)
AddAll(result, add) ==
    IF add = <<>> THEN result
    ELSE AddAll(AddOne(result, Head(add).name, Head(add).value), Tail(add))

\* The rules argument: None, {}, a value that is not a dict, a flat map of
\* headers (none of the four keys), or a dict with some of the four keys.
\* typed is FALSE when a value has a type its field does not accept.  An
\* absent or empty field is <<>>.
EmptyRules == [add |-> <<>>, remove |-> <<>>, replace_name |-> <<>>, replace_value |-> <<>>]
FlatRules(add, typed) == [kind |-> "flat", add |-> add, typed |-> typed]
StructuredRules(add, remove, replace_name, replace_value, typed) ==
    [kind |-> "structured", add |-> add, remove |-> remove, replace_name |-> replace_name,
     replace_value |-> replace_value, typed |-> typed]

\* An entry of replace_value: a mapping with its fields, or another value.
MappingEntry(name, fields) == [name |-> name, form |-> "mapping", fields |-> fields]
ScalarEntry(name) == [name |-> name, form |-> "scalar", fields |-> [none |-> TRUE]]

\* Union[ReplaceValueRule, Dict[str, Any]] on a mapping: a mapping that is
\* not a well-formed rule stays a dict; a well-formed one becomes a
\* ReplaceValueRule or stays a dict, as the installed pydantic resolves the
\* union (union is "model" or "dict").
ParseEntry(entry, union) ==
    [name |-> entry.name,
     type |-> IF WellFormed(entry.fields) /\ union = "model" THEN "ReplaceValueRule" ELSE "dict",
     fields |-> entry.fields]

\* HeaderRules(add=..., remove=..., replace_name=..., replace_value=...):
\* ok is FALSE when pydantic raises ValidationError.
HeaderRules(kwargs, typed, union) ==
    IF ~typed \/ \E i \in 1..Len(kwargs.replace_value) : kwargs.replace_value[i].form = "scalar"
    THEN [ok |-> FALSE, rules |-> EmptyRules]
    ELSE [ok |-> TRUE,
          rules |-> [add |-> kwargs.add, remove |-> kwargs.remove,
                     replace_name |-> kwargs.replace_name,
                     replace_value |-> [i \in 1..Len(kwargs.replace_value) |->
                                           ParseEntry(kwargs.replace_value[i], union)]]]

\* Lines 81-96: the parse of apply_header_rules on a truthy rules value.
ParseApply(rules, union) ==
    CASE rules.kind = "other" -> [ok |-> TRUE, rules |-> EmptyRules]
      [] rules.kind = "flat" ->
            HeaderRules([EmptyRules EXCEPT !.add = rules.add], rules.typed, union)
      [] rules.kind = "structured" -> HeaderRules(rules, rules.typed, union)

is_empty(header_rules) == header_rules = EmptyRules

\* Lines 77-99: the parse; the headers are returned as they are when there
\* are no rules, when the parse fails and when the rule set is empty.
ApplyStart(headers, rules, union) ==
    /\ engine.pc = "idle"
    /\ LET e == [pc |-> "done", op |-> "apply", headers |-> headers, rules |-> rules,
                 union |-> union, header_rules |-> EmptyRules, parsed |-> FALSE,
                 result |-> headers, out |-> headers, raised |-> FALSE]
       IN  IF rules.kind \in {"none", "empty"} THEN engine' = e
           ELSE LET p == ParseApply(rules, union)
                IN  IF ~p.ok THEN engine' = e
                    ELSE IF is_empty(p.rules) THEN engine' = [e EXCEPT !.parsed = TRUE]
                    ELSE engine' = [e EXCEPT !.pc = "remove", !.parsed = TRUE,
                                             !.header_rules = p.rules]
    /\ UNCHANGED resolver

ApplyRemove ==
    /\ engine.pc = "remove"
    /\ engine' = [engine EXCEPT !.pc = "replace_name",
                                !.result = RemoveAll(@, engine.header_rules.remove)]
    /\ UNCHANGED resolver

\* Step 2 done after step 3: a mutation.
ApplyReplaceName_after_values ==
    /\ engine.pc = "replace_name"
    /\ LET r == ReplaceValues(engine.result, engine.header_rules.replace_value)
       IN  engine' = IF r.raised
                     THEN [engine EXCEPT !.pc = "done", !.raised = TRUE]
                     ELSE [engine EXCEPT !.pc = "add",
                              !.result = RenameAll(r.result, engine.header_rules.replace_name)]
    /\ UNCHANGED resolver

ApplyReplaceName ==
    /\ engine.pc = "replace_name"
    /\ engine' = [engine EXCEPT !.pc = "replace_value",
                                !.result = RenameAll(@, engine.header_rules.replace_name)]
    /\ UNCHANGED resolver

\* Step 3; an exception raised in it leaves apply_header_rules.
ApplyReplaceValue ==
    /\ engine.pc = "replace_value"
    /\ LET r == ReplaceValues(engine.result, engine.header_rules.replace_value)
       IN  engine' = IF r.raised
                     THEN [engine EXCEPT !.pc = "done", !.raised = TRUE]
                     ELSE [engine EXCEPT !.pc = "add", !.result = r.result]
    /\ UNCHANGED resolver

\* Step 4 and the return of the result.
ApplyAdd ==
    /\ engine.pc = "add"
    /\ LET result == AddAll(engine.result, engine.header_rules.add)
       IN  engine' = [engine EXCEPT !.pc = "done", !.result = result, !.out = result]
    /\ UNCHANGED resolver

\* validate_header_rules accepting on the parse alone: a mutation.
validate_header_rules_parse_only(rules, union) ==
    IF rules.kind \in {"none", "other"} THEN FALSE
    ELSE IF rules.kind \in {"empty", "flat"} THEN TRUE
    ELSE HeaderRules(rules, rules.typed, union).ok

\* validate_header_rules (lines 179-205): is_valid.  HeaderRules(**rules)
\* raises TypeError on a value that is not a mapping and ignores the keys
\* that are not fields; only the entries that are ReplaceValueRule objects
\* have their pattern compiled.
validate_header_rules(rules, union) ==
    IF rules.kind \in {"none", "other"} THEN FALSE
    ELSE IF rules.kind \in {"empty", "flat"} THEN TRUE
    ELSE LET p == HeaderRules(rules, rules.typed, union)
         IN  /\ p.ok
             /\ \A i \in 1..Len(p.rules.replace_value) :
                   LET value_rule == p.rules.replace_value[i]
                   IN  value_rule.type = "ReplaceValueRule" /\ value_rule.fields.regex =>
                          Compiles(value_rule.fields.search)

Validate(rules, union) ==
    /\ engine.pc = "idle"
    /\ engine' = [pc |-> "done", op |-> "validate", rules |-> rules, union |-> union,
                  valid |-> validate_header_rules(rules, union), raised |-> FALSE]
    /\ UNCHANGED resolver

\* dict.update: the items of other stored in order, each replacing the value
\* of a key already there.
RECURSIVE DictUpdate(_, _)
DictUpdate(d, other) ==
    IF other = <<>> THEN d
    ELSE DictUpdate(DictSet(d, Head(other).name, Head(other).value), Tail(other))

\* The rules argument of merge_legacy_headers: None, {}, or a dict whose key
\* add is absent, is None (HeaderRules.add is Optional) or is a map, and
\* whose key remove, standing for the keys other than add, is absent (<<>>)
\* or a list.
MergeRules(add_form, add, remove) ==
    [kind |-> "dict", add_form |-> add_form, add |-> add, remove |-> remove]
\* The headers argument: None or a dict; None and {} are not truthy.
HeadersArg(items) == [kind |-> "dict", items |-> items]
HasHeaders(headers) == headers.kind = "dict" /\ headers.items # <<>>
NoRules == [add_form |-> "absent", add |-> <<>>, remove |-> <<>>]
Truthy(rules) == rules.kind = "dict"

\* merge_legacy_headers with the add map copied before the update: a mutation.
merge_legacy_headers_copied(headers, rules) ==
    LET result == IF Truthy(rules)
                  THEN [add_form |-> rules.add_form, add |-> rules.add, remove |-> rules.remove]
                  ELSE NoRules
    IN  IF ~HasHeaders(headers)
        THEN [result |-> result, rules |-> rules, raised |-> FALSE]
        ELSE IF result.add_form = "none"
        THEN [result |-> result, rules |-> rules, raised |-> TRUE]
        ELSE [result |-> [result EXCEPT !.add_form = "map", !.add = DictUpdate(@, headers.items)],
              rules |-> rules, raised |-> FALSE]

\* merge_legacy_headers (lines 208-237): the returned dict, the rules object
\* of the caller after the call, and whether AttributeError was raised.
\* result.update(rules) copies the keys, not the values: result["add"] is
\* the add map of the caller's rules, which the update of line 235 changes.
merge_legacy_headers(headers, rules) ==
    LET result == IF Truthy(rules)
                  THEN [add_form |-> rules.add_form, add |-> rules.add, remove |-> rules.remove]
                  ELSE NoRules
    IN  IF ~HasHeaders(headers)
        THEN [result |-> result, rules |-> rules, raised |-> FALSE]
        ELSE IF result.add_form = "absent"
        THEN [result |-> [result EXCEPT !.add_form = "map", !.add = DictUpdate(<<>>, headers.items)],
              rules |-> rules, raised |-> FALSE]
        ELSE IF result.add_form = "none"
        THEN [result |-> result, rules |-> rules, raised |-> TRUE]
        ELSE [result |-> [result EXCEPT !.add = DictUpdate(@, headers.items)],
              rules |-> [rules EXCEPT !.add = DictUpdate(@, headers.items)],
              raised |-> FALSE]

\* One call: headers and rules are the arguments as the caller passed them,
\* rules_after is the caller's rules object when the call has ended.
MergeLegacyHeaders(headers, rules) ==
    /\ engine.pc = "idle"
    /\ LET r == merge_legacy_headers(headers, rules)
       IN  engine' = [pc |-> "done", op |-> "merge", headers |-> headers, rules |-> rules,
                      headers_after |-> headers, rules_after |-> r.rules,
                      result |-> r.result, raised |-> r.raised]
    /\ UNCHANGED resolver

----------------------------------------------------------------------------
(* extract_cache_creation_tokens                                           *)

\* A value of the usage dict: an integer or a numeric string; a key that is
\* not there is Absent.
IntValue(n) == [type |-> "int", n |-> n]
StrValue(n) == [type |-> "str", n |-> n]
Absent == [type |-> "absent"]

\* int(d.get(key, 0)): the integer, the integer a numeric string denotes,
\* or 0 for a key that is not there.
IntGet(value) == IF value = Absent THEN 0 ELSE value.n

\* usage.cache_creation: not there, a value that is not a dict, or a dict
\* with its two fields.
Nested(cache_5m, cache_1h) ==
    [kind |-> "mapping", ephemeral_5m_input_tokens |-> cache_5m,
     ephemeral_1h_input_tokens |-> cache_1h]
NotNested == {[kind |-> "absent"], [kind |-> "other"]}

\* The tiers chosen by the value of the sum and not by presence: a mutation.
extract_cache_creation_tokens_by_value(usage) ==
    LET nested == IF usage.cache_creation.kind = "mapping"
                  THEN IntGet(usage.cache_creation.ephemeral_5m_input_tokens)
                       + IntGet(usage.cache_creation.ephemeral_1h_input_tokens)
                  ELSE 0
        flat == IntGet(usage.claude_cache_creation_5_m_tokens)
                + IntGet(usage.claude_cache_creation_1_h_tokens)
    IN  IF nested > 0 THEN nested
        ELSE IF flat > 0 THEN flat
        ELSE IntGet(usage.cache_creation_input_tokens)

\* Lines 36-92.
extract_cache_creation_tokens(usage) ==
    LET old_format == IntGet(usage.cache_creation_input_tokens)
    IN  IF usage.cache_creation.kind = "mapping"
        THEN LET cache_5m == IntGet(usage.cache_creation.ephemeral_5m_input_tokens)
                 cache_1h == IntGet(usage.cache_creation.ephemeral_1h_input_tokens)
                 total == cache_5m + cache_1h
             IN  IF total > 0 THEN total
                 ELSE IF old_format > 0 THEN old_format
                 ELSE 0
        ELSE IF \/ usage.claude_cache_creation_5_m_tokens # Absent
                \/ usage.claude_cache_creation_1_h_tokens # Absent
        THEN LET cache_5m == IntGet(usage.claude_cache_creation_5_m_tokens)
                 cache_1h == IntGet(usage.claude_cache_creation_1_h_tokens)
                 total == cache_5m + cache_1h
             IN  IF total > 0 THEN total
                 ELSE IF old_format > 0 THEN old_format
                 ELSE 0
        ELSE old_format

ExtractCacheCreationTokens(usage) ==
    /\ engine.pc = "idle"
    /\ engine' = [pc |-> "done", op |-> "extract", usage |-> usage,
                  result |-> extract_cache_creation_tokens(usage)]
    /\ UNCHANGED resolver

----------------------------------------------------------------------------
(* SpecResolve: one worker resolving names over every datastore content of *)
(* the bounds                                                              *)

InitResolve ==
    /\ providers \in {[p \in ProviderIds |-> [is_active |-> (p = "p1" \/ b)]] : b \in BOOLEAN}
    /\ \E n1 \in {NameA, NameAB}, n2 \in {NameA, NameAB}, al1 \in AliasLists,
          al2 \in AliasLists, g \in GlobalModelIds, act \in BOOLEAN :
          models = [m \in ModelIds |->
                      IF m = "m1" THEN ModelRow("p1", "g1", n1, al1, act)
                                  ELSE ModelRow("p2", g, n2, al2, TRUE)]
    /\ global_models \in
          {[g \in GlobalModelIds |->
              IF g = "g1" THEN [name |-> NameB, is_active |-> TRUE]
                          ELSE [name |-> NameAB, is_active |-> b]] : b \in BOOLEAN}
    /\ dialect \in {"postgresql", "sqlite"}
    /\ cache = <<>>
    /\ call = [w \in Workers |-> Idle]
    /\ returned = [n \in CoreNames |-> {}]
    /\ engine = EngineIdle

NextResolve ==
    \/ \E model_name \in RawNames : ResolveStart("w1", model_name)
    \/ ResolveQuery("w1")
    \/ ResolveDirect("w1")
    \/ ResolveDbError("w1")
    \/ ResolveSet("w1")

SpecResolve == InitResolve /\ [][NextResolve]_vars

----------------------------------------------------------------------------
(* Spec: two workers resolving concurrently while the datastore is updated *)
(* and cache entries are invalidated or expire                             *)

\* Model m1 of provider p1 serves GlobalModel "b" under the provider-side
\* name "a"; Model m2 of provider p2 serves GlobalModel "ab" under "ab".
InitSystem ==
    /\ providers = [p \in ProviderIds |-> [is_active |-> TRUE]]
    /\ models = [m \in ModelIds |->
                    IF m = "m1" THEN ModelRow("p1", "g1", NameA, <<>>, TRUE)
                                ELSE ModelRow("p2", "g2", NameAB, <<>>, TRUE)]
    /\ global_models = [g \in GlobalModelIds |->
                    IF g = "g1" THEN [name |-> NameB, is_active |-> TRUE]
                                ELSE [name |-> NameAB, is_active |-> TRUE]]
    /\ dialect \in {"postgresql", "sqlite"}
    /\ cache = <<>>
    /\ call = [w \in Workers |-> Idle]
    /\ returned = [n \in CoreNames |-> {}]
    /\ engine = EngineIdle

\* The alias lists the administrative process gives Model m2.
AdminAliasLists == {<<>>, <<AliasEntry(NameA)>>}

Next ==
    \/ \E w \in Workers, model_name \in RawNames : ResolveStart(w, model_name)
    \/ \E w \in Workers : ResolveQuery(w)
    \/ \E w \in Workers : ResolveDirect(w)
    \/ \E w \in Workers : ResolveSet(w)
    \/ \E w \in Workers, al \in AdminAliasLists :
          InvalidateModelCacheCall(w, "m2", None, None, Empty, al)
    \/ \E w \in Workers : InvalidateModelCache(w)
    \/ \E w \in Workers : InvalidateGlobalModelCacheCall(w, "g2", NameAB)
    \/ \E w \in Workers : InvalidateGlobalModelCache(w)
    \/ \E key \in DOMAIN cache : Expire(key)
    \/ \E al \in AdminAliasLists : AdminSetAliases("m2", al)
    \/ \E b \in BOOLEAN : AdminSetGlobalModelActive("g2", b)

Spec == InitSystem /\ [][Next]_vars

----------------------------------------------------------------------------
(* SpecConcurrent: two workers resolving concurrently over a datastore     *)
(* that does not change                                                    *)

InitConcurrent ==
    /\ providers = [p \in ProviderIds |-> [is_active |-> TRUE]]
    /\ \E act \in BOOLEAN, al \in AdminAliasLists :
          models = [m \in ModelIds |->
                      IF m = "m1" THEN ModelRow("p1", "g1", NameA, <<>>, act)
                                  ELSE ModelRow("p2", "g2", NameAB, al, TRUE)]
    /\ global_models \in
          {[g \in GlobalModelIds |->
              IF g = "g1" THEN [name |-> NameB, is_active |-> TRUE]
                          ELSE [name |-> NameAB, is_active |-> b]] : b \in BOOLEAN}
    /\ dialect \in {"postgresql", "sqlite"}
    /\ cache = <<>>
    /\ call = [w \in Workers |-> Idle]
    /\ returned = [n \in CoreNames |-> {}]
    /\ engine = EngineIdle

NextConcurrent ==
    \/ \E w \in Workers, model_name \in RawNames : ResolveStart(w, model_name)
    \/ \E w \in Workers : ResolveQuery(w)
    \/ \E w \in Workers : ResolveDirect(w)
    \/ \E w \in Workers : ResolveSet(w)

SpecConcurrent == InitConcurrent /\ [][NextConcurrent]_vars

----------------------------------------------------------------------------
(* SpecFailure: one worker resolving while datastore queries may fail      *)

NextFailure ==
    \/ \E model_name \in RawNames : ResolveStart("w1", model_name)
    \/ ResolveQuery("w1")
    \/ ResolveQueryFallback("w1")
    \/ ResolveDirect("w1")
    \/ ResolveDbError("w1")
    \/ ResolveSet("w1")

SpecFailure == InitConcurrent /\ [][NextFailure]_vars

----------------------------------------------------------------------------
(* SpecLookup: one worker using every operation of the service             *)

\* Arguments of the lookups: an id, a pair and a name the datastore holds,
\* and ones it does not.
GetArgs(op) ==
    CASE op = "get_model_by_id" -> {[model_id |-> m] : m \in {"m1", "mx"}}
      [] op = "get_global_model_by_id" -> {[global_model_id |-> g] : g \in {"g2", "gx"}}
      [] op = "get_model_by_provider_and_global_model" ->
            {[provider_id |-> "p1", global_model_id |-> g] : g \in {"g1", "g2"}}
      [] op = "get_global_model_by_name" -> {[name |-> n] : n \in {NameAB, NameA}}

\* Arguments of invalidate_model_cache.
InvalidateNames == {Empty, NameA}
InvalidateAliasLists ==
    {<<>>} \cup {<<AliasEntry(Pad(k, NameAB, k))>> : k \in 0..MaxPad}
           \cup {<<AliasEntry(Spaces(MaxPad))>>}

NextLookup ==
    \/ \E model_name \in {NameA, NameAB} : ResolveStart("w1", model_name)
    \/ ResolveQuery("w1")
    \/ ResolveDirect("w1")
    \/ ResolveDbError("w1")
    \/ ResolveSet("w1")
    \/ \E op \in GetOps : \E a \in GetArgs(op) : GetStart("w1", op, a)
    \/ GetQuery("w1")
    \/ GetSet("w1")
    \/ \E p \in {None, "p1"}, g \in {None, "g1"}, n \in InvalidateNames,
          al \in InvalidateAliasLists :
          InvalidateModelCacheCall("w1", "m1", p, g, n, al)
    \/ InvalidateModelCache("w1")
    \/ \E n \in {Empty, NameAB} : InvalidateGlobalModelCacheCall("w1", "g2", n)
    \/ InvalidateGlobalModelCache("w1")
    \/ \E key \in DOMAIN cache : Expire(key)
    \/ \E b \in BOOLEAN : AdminSetGlobalModelActive("g2", b)

SpecLookup == InitSystem /\ [][NextLookup]_vars

----------------------------------------------------------------------------
(* SpecHeaders: one call of the header rule engine on every input of the   *)
(* bounds                                                                  *)

MaxHeaders == 2

Ha == <<"a">>
HA == <<"A">>
Hb == <<"b">>
HB == <<"B">>
HeaderNames == {Ha, HA, Hb, HB}
HeaderValues == {<<"a", "b">>, <<"A">>}
HeaderItems == {Item(k, v) : k \in HeaderNames, v \in HeaderValues}
HeaderDicts ==
    {d \in UNION {[1..k -> HeaderItems] : k \in 0..MaxHeaders} :
        \A i \in 1..Len(d), j \in 1..Len(d) : i # j => d[i].name # d[j].name}

Rule(search, replace, regex, case_sensitive) ==
    [search |-> search, replace |-> replace, regex |-> regex, case_sensitive |-> case_sensitive]
NoReplace == [search |-> <<"a">>, regex |-> FALSE, case_sensitive |-> TRUE]
RuleFields ==
    {Rule(<<"a">>, <<"b">>, r, c) : r \in BOOLEAN, c \in BOOLEAN}
    \cup {Rule(<<"[">>, <<"b">>, TRUE, TRUE), Rule(<<"a">>, <<"\\", "1">>, TRUE, TRUE),
          Rule(<<"a">>, <<"\\", "1">>, FALSE, FALSE), NoReplace}

RemoveInputs == {<<>>, <<HA>>, <<Ha, HB>>}
ReplaceNameInputs == {<<>>, <<Item(Ha, HB)>>, <<Item(Ha, HA)>>, <<Item(HA, Hb)>>}
ReplaceValueInputs ==
    {<<>>, <<ScalarEntry(Ha)>>,
     <<MappingEntry(Ha, Rule(<<"[">>, <<"b">>, TRUE, TRUE)),
       MappingEntry(HB, Rule(<<"a">>, <<"b">>, FALSE, TRUE))>>}
    \cup {<<MappingEntry(k, f)>> : k \in {Ha, HB}, f \in RuleFields}
AddInputs == {<<>>, <<Item(HA, <<"b">>)>>, <<Item(Hb, <<"b">>)>>}

RulesInputs ==
    {[kind |-> k] : k \in {"none", "empty", "other"}}
    \cup {FlatRules(add, t) : add \in AddInputs \ {<<>>}, t \in BOOLEAN}
    \cup {StructuredRules(<<>>, <<HA>>, <<>>, <<>>, FALSE)}
    \cup {StructuredRules(add, remove, replace_name, replace_value, TRUE) :
            add \in AddInputs, remove \in RemoveInputs,
            replace_name \in ReplaceNameInputs, replace_value \in ReplaceValueInputs}

\* The arguments of merge_legacy_headers.
MergeHeaders == {[kind |-> "none"]} \cup {HeadersArg(d) : d \in HeaderDicts}
MergeAddInputs == {<<>>, <<Item(HA, <<"b">>)>>, <<Item(Hb, <<"b">>), Item(Ha, <<"A">>)>>}
MergeRulesInputs ==
    {[kind |-> k] : k \in {"none", "empty"}}
    \cup {MergeRules("absent", <<>>, <<HA>>), MergeRules("none", <<>>, <<>>),
          MergeRules("none", <<>>, <<HA>>)}
    \cup {MergeRules("map", add, remove) : add \in MergeAddInputs, remove \in {<<>>, <<HA>>}}

InitHeaders == InitSystem /\ dialect = "postgresql"

NextHeaders ==
    \/ /\ engine.pc = "idle"
       /\ \E headers \in HeaderDicts, rules \in RulesInputs, union \in {"model", "dict"} :
             ApplyStart(headers, rules, union)
    \/ ApplyRemove
    \/ ApplyReplaceName
    \/ ApplyReplaceValue
    \/ ApplyAdd
    \/ /\ engine.pc = "idle"
       /\ \E rules \in RulesInputs, union \in {"model", "dict"} : Validate(rules, union)
    \/ /\ engine.pc = "idle"
       /\ \E headers \in MergeHeaders, rules \in MergeRulesInputs :
             MergeLegacyHeaders(headers, rules)

SpecHeaders == InitHeaders /\ [][NextHeaders]_vars

----------------------------------------------------------------------------
(* SpecFallback: one worker resolving over every datastore content, the    *)
(* mapping query answered by the JSONB query or by the full-scan fallback  *)

NextFallback ==
    \/ \E model_name \in RawNames : ResolveStart("w1", model_name)
    \/ ResolveQuery("w1")
    \/ ResolveQueryFallback("w1")
    \/ ResolveDirect("w1")
    \/ ResolveSet("w1")

SpecFallback == InitResolve /\ [][NextFallback]_vars

----------------------------------------------------------------------------
(* SpecRace: worker w1 resolves while Model m2 gains the alias "a" and     *)
(* worker w2, once the change is in the datastore, invalidates for it      *)

\* Both names have a mapping candidate in every state, so no call reaches
\* the direct match.
NextRace ==
    \/ \E model_name \in {NameA, NameAB} : ResolveStart("w1", model_name)
    \/ ResolveQuery("w1")
    \/ ResolveSet("w1")
    \/ AdminSetAliases("m2", <<AliasEntry(NameA)>>)
    \/ /\ models["m2"].provider_model_aliases # <<>>
       /\ InvalidateModelCacheCall("w2", "m2", "p2", "g2", NameAB,
                                   models["m2"].provider_model_aliases)
    \/ InvalidateModelCache("w2")
    \/ \E key \in DOMAIN cache : Expire(key)

SpecRace == InitSystem /\ [][NextRace]_vars

----------------------------------------------------------------------------
(* SpecAliasKeys: Model m2 serves GlobalModel "ab" under the alias "a";    *)
(* worker w1 resolves while the GlobalModel is deactivated and worker w2,  *)
(* once the change is in the datastore, invalidates for it                 *)

InitAliasKeys ==
    /\ providers = [p \in ProviderIds |-> [is_active |-> TRUE]]
    /\ models = [m \in ModelIds |->
                    IF m = "m1" THEN ModelRow("p1", "g1", NameA, <<>>, TRUE)
                                ELSE ModelRow("p2", "g2", NameAB, <<AliasEntry(NameA)>>, TRUE)]
    /\ global_models = [g \in GlobalModelIds |->
                    IF g = "g1" THEN [name |-> NameB, is_active |-> TRUE]
                                ELSE [name |-> NameAB, is_active |-> TRUE]]
    /\ dialect \in {"postgresql", "sqlite"}
    /\ cache = <<>>
    /\ call = [w \in Workers |-> Idle]
    /\ returned = [n \in CoreNames |-> {}]
    /\ engine = EngineIdle

NextAliasKeys ==
    \/ \E model_name \in {NameA, NameAB} : ResolveStart("w1", model_name)
    \/ ResolveQuery("w1")
    \/ ResolveDirect("w1")
    \/ ResolveSet("w1")
    \/ AdminSetGlobalModelActive("g2", FALSE)
    \/ /\ ~global_models["g2"].is_active
       /\ InvalidateGlobalModelCacheCall("w2", "g2", NameAB)
    \/ InvalidateGlobalModelCache("w2")
    \/ InvalidateModelCacheCall("w2", "m2", "p2", "g2", NameAB,
                                models["m2"].provider_model_aliases)
    \/ InvalidateModelCache("w2")
    \/ \E key \in DOMAIN cache : Expire(key)

SpecAliasKeys == InitAliasKeys /\ [][NextAliasKeys]_vars

----------------------------------------------------------------------------
(* SpecStale: one worker resolving over a cache that holds entries written *)
(* before supported_capabilities was part of the snapshot                  *)

\* What a resolve key may hold at the start: nothing, the sentinel, a dict of
\* the old shape or a snapshot of the current shape.
StartEntries ==
    {Missing, NOT_FOUND}
    \cup {LegacyDict(g, n) : g \in GlobalModelIds, n \in {NameB, NameAB}}
    \cup {[id |-> g, name |-> n, is_active |-> TRUE, supported_capabilities |-> "caps"] :
            g \in GlobalModelIds, n \in {NameB, NameAB}}

InitStale ==
    /\ providers = [p \in ProviderIds |-> [is_active |-> TRUE]]
    /\ models = [m \in ModelIds |->
                    IF m = "m1" THEN ModelRow("p1", "g1", NameA, <<>>, TRUE)
                                ELSE ModelRow("p2", "g2", NameAB, <<>>, TRUE)]
    /\ global_models \in
          {[g \in GlobalModelIds |->
              IF g = "g1" THEN [name |-> NameB, is_active |-> TRUE]
                          ELSE [name |-> NameAB, is_active |-> b]] : b \in BOOLEAN}
    /\ dialect \in {"postgresql", "sqlite"}
    /\ \E entries \in [{NameA, NameAB} -> StartEntries] :
          cache = [key \in {ResolveKey(n) : n \in {m \in {NameA, NameAB} : entries[m] # Missing}}
                      |-> entries[key.name]]
    /\ call = [w \in Workers |-> Idle]
    /\ returned = [n \in CoreNames |-> {}]
    /\ engine = EngineIdle

NextStale ==
    \/ \E model_name \in {NameA, NameAB} : ResolveStart("w1", model_name)
    \/ ResolveQuery("w1")
    \/ ResolveDirect("w1")
    \/ ResolveSet("w1")

SpecStale == InitStale /\ [][NextStale]_vars

----------------------------------------------------------------------------
(* SpecUsage: one call of extract_cache_creation_tokens on every usage of  *)
(* the bounds                                                              *)

MaxTokens == 2

TokenValues == {IntValue(n) : n \in -1..MaxTokens} \cup {StrValue(1)}
OptionalTokens == TokenValues \cup {Absent}
UsageInputs ==
    [cache_creation : NotNested \cup {Nested(a, b) : a \in OptionalTokens, b \in OptionalTokens},
     claude_cache_creation_5_m_tokens : OptionalTokens,
     claude_cache_creation_1_h_tokens : OptionalTokens,
     cache_creation_input_tokens : OptionalTokens]

NextUsage ==
    /\ engine.pc = "idle"
    /\ \E usage \in UsageInputs : ExtractCacheCreationTokens(usage)

SpecUsage == InitHeaders /\ [][NextUsage]_vars

----------------------------------------------------------------------------
(* Properties of one resolution, over every datastore content (SpecResolve) *)

Methods == {"alias", "provider_model_name", "direct_match", "not_found"}

\* A call that went to the datastore and came back with an answer.
Resolved(w) ==
    /\ call[w].op = "resolve"
    /\ call[w].pc = "done"
    /\ call[w].name # Empty
    /\ ~call[w].cache_hit
    /\ ~call[w].raised

\* An alias entry whose stored name is exactly n / is n once trimmed.
HasAliasExact(m, n) ==
    \E i \in 1..Len(models[m].provider_model_aliases) :
        models[m].provider_model_aliases[i].name = n
HasAliasTrimmed(m, n) ==
    \E i \in 1..Len(models[m].provider_model_aliases) :
        strip(models[m].provider_model_aliases[i].name) = n
HasProviderName(m, n) == models[m].provider_model_name = n
GmName(m) == global_models[models[m].global_model_id].name

\* The active rows that match n as the claim words it: by an alias equal to n
\* (rank 0) or by the provider-side name only (rank 1).
ExactRows(n) == {m \in ActiveJoin : HasAliasExact(m, n) \/ HasProviderName(m, n)}
ExactRank(m, n) == IF HasAliasExact(m, n) THEN 0 ELSE 1
ExactBefore(m, k, n) ==
    \/ ExactRank(m, n) < ExactRank(k, n)
    \/ ExactRank(m, n) = ExactRank(k, n) /\ ~StrLess(GmName(k), GmName(m))

ReturnedRows(n) ==
    {m \in models_with_global(n) : HasAliasTrimmed(m, n) \/ HasProviderName(m, n)}
TrimmedRank(m, n) == IF HasAliasTrimmed(m, n) THEN 0 ELSE 1
TrimmedBefore(m, k, n) ==
    \/ TrimmedRank(m, n) < TrimmedRank(k, n)
    \/ TrimmedRank(m, n) = TrimmedRank(k, n) /\ ~StrLess(GmName(k), GmName(m))

CandidateGlobalModels(n) == {models[m].global_model_id : m \in ReturnedRows(n)}

\* C6: a call increments the conflict counter once when its deduplicated
\* candidates hold more than one distinct GlobalModel id and never otherwise
\* (cache hit, empty name, one GlobalModel, direct match, not found); the
\* conflict does not abort the resolution, which returns the first candidate.
C6_ConflictOnce ==
    \A w \in Workers :
        /\ call[w].conflicts \in {0, 1}
        /\ call[w].pc = "done" =>
              /\ Resolved(w) =>
                    (call[w].conflicts = 1 <=>
                        Cardinality(CandidateGlobalModels(call[w].name)) > 1)
              /\ ~Resolved(w) => call[w].conflicts = 0
              /\ call[w].method \in {"direct_match", "not_found"} => call[w].conflicts = 0
              /\ call[w].conflicts = 1 =>
                    /\ call[w].method \in {"alias", "provider_model_name"}
                    /\ \E m \in ReturnedRows(call[w].name) :
                          /\ call[w].result = models[m].global_model_id
                          /\ \A k \in ReturnedRows(call[w].name) :
                                TrimmedBefore(m, k, call[w].name)

\* C6 witnesses: a conflict counted once with the answer returned, and two
\* Models of one GlobalModel matching without a conflict.
C6_Witness ==
    \E w \in Workers :
        /\ Resolved(w)
        /\ call[w].conflicts = 1
        /\ call[w].result # None
        /\ call[w].writes = 1

\* C8: a miss is answered by direct match only when no active row matches the
\* name by alias or by provider-side name, and then with an active GlobalModel
\* of that name; a name that is an alias of Models of GlobalModel A only and
\* the own name of GlobalModel B resolves to A.
C8_DirectMatchLast ==
    \A w \in Workers :
        Resolved(w) =>
            /\ call[w].method = "direct_match" =>
                  /\ ExactRows(call[w].name) = {}
                  /\ call[w].result \in GlobalModelIds
                  /\ global_models[call[w].result].name = call[w].name
                  /\ global_models[call[w].result].is_active
            /\ \A a \in GlobalModelIds :
                  /\ \E m \in ActiveJoin :
                        HasAliasExact(m, call[w].name) /\ models[m].global_model_id = a
                  /\ \A m \in ActiveJoin :
                        HasAliasTrimmed(m, call[w].name) \/ HasProviderName(m, call[w].name)
                            => models[m].global_model_id = a
                  => call[w].result = a /\ call[w].method = "alias"

\* C8 witnesses: the name is an alias mapped to one GlobalModel and the own
\* name of another, active, one, and the alias won.
C8_Witness ==
    \E w \in Workers : \E m \in ActiveJoin, b \in GlobalModelIds :
        /\ Resolved(w)
        /\ HasAliasExact(m, call[w].name)
        /\ global_models[b].name = call[w].name /\ global_models[b].is_active
        /\ b # models[m].global_model_id
        /\ call[w].result = models[m].global_model_id

\* C9: a name that is empty after trimming returns not found at once, with no
\* cache read, no datastore query and no cache write, and nothing is ever
\* stored under the resolve key of the empty name.
C9_EmptyNameUncached ==
    /\ ~Cached(ResolveKey(Empty))
    /\ \A w \in Workers :
          call[w].name = Empty /\ call[w].pc # "idle" =>
              /\ call[w].pc = "done"
              /\ call[w].result = None
              /\ call[w].reads = 0 /\ call[w].queries = 0 /\ call[w].writes = 0

\* C9 witness: an empty name was resolved while the cache held other entries.
C9_Witness ==
    \E w \in Workers :
        /\ call[w].pc = "done" /\ call[w].name = Empty
        /\ cache # <<>>

\* C10 as stated: every call, whatever its outcome, emits exactly one outcome
\* count and exactly one duration observation, labelled with a method.
C10_AsStated ==
    \A w \in Workers :
        call[w].pc = "done" =>
            /\ Len(call[w].outcomes) = 1
            /\ Len(call[w].durations) = 1
            /\ call[w].outcomes[1][1] \in Methods
            /\ call[w].durations[1] \in Methods

----------------------------------------------------------------------------
(* Properties of the resolve cache under concurrency, datastore updates,   *)
(* invalidation and expiry (Spec)                                          *)

IsSnapshot(d) == d # Missing /\ d # NOT_FOUND /\ "supported_capabilities" \in DOMAIN d
ResolveCalls == {w \in Workers : call[w].op = "resolve" /\ call[w].name # Empty}

\* C2 as stated: once a resolve of n has returned a GlobalModel, every
\* resolve of n started later, with the resolve key neither invalidated nor
\* expired in between, returns that same GlobalModel and issues no query.
C2_AsStated ==
    \A w \in ResolveCalls :
        call[w].pc = "done" =>
            \A g \in call[w].after : call[w].result = g /\ call[w].queries = 0

\* C2: a resolve whose cache read finds a snapshot returns the snapshot's
\* GlobalModel with no datastore query and no cache write; a resolve whose
\* cache read finds the key absent queries the datastore before it returns;
\* a positive outcome is written under the resolve key before returning; and
\* an entry under a resolve key is removed or replaced only by an
\* invalidation, its expiry, or the write of a resolve that had missed.
C2_SnapshotServedUntilReplaced ==
    /\ [](\A w \in ResolveCalls :
            /\ IsSnapshot(call[w].cached_data) =>
                  /\ call[w].pc = "done"
                  /\ call[w].result = call[w].cached_data.id
                  /\ call[w].queries = 0
                  /\ call[w].writes = 0
            /\ call[w].cached_data = Missing /\ call[w].pc = "done" =>
                  call[w].queries >= 1)
    /\ [][\A w \in ResolveCalls :
            call[w].pc = "set" /\ call'[w].pc = "done" /\ call[w].result # None =>
               /\ Cached(ResolveKey(call[w].name))'
               /\ cache'[ResolveKey(call[w].name)].id = call'[w].result]_vars
    /\ [][\A n \in CoreNames \ {Empty} :
            Cached(ResolveKey(n)) /\ cache' # cache =>
               \/ Cached(ResolveKey(n))' /\ cache'[ResolveKey(n)] = cache[ResolveKey(n)]
               \/ ~Cached(ResolveKey(n))' /\ returned'[n] = {}
               \/ \E w \in ResolveCalls :
                     /\ call[w].pc = "set" /\ call'[w].pc = "done"
                     /\ call[w].name = n
                     /\ ~IsSnapshot(call[w].cached_data)
                     /\ call[w].cached_data # NOT_FOUND]_vars

\* A resolve served from the cache the GlobalModel an earlier resolve returned.
C2_Witness ==
    \E w \in ResolveCalls :
        /\ call[w].pc = "done" /\ call[w].cache_hit
        /\ call[w].result # None
        /\ call[w].after = {call[w].result}
        /\ call[w].queries = 0

HasMatch(n) == matched_models_dict(n) # {} \/ DirectMatch(n) # {}

\* C3: a resolve that finds no mapping candidate and no direct match writes
\* the sentinel under the resolve key of the name; a resolve whose cache read
\* finds the sentinel returns not found with no datastore query, whatever
\* the datastore holds by then.
C3_SentinelServed ==
    /\ [](\A w \in ResolveCalls :
            call[w].cached_data = NOT_FOUND =>
                /\ call[w].pc = "done"
                /\ call[w].result = None
                /\ call[w].method = "not_found"
                /\ call[w].queries = 0)
    /\ [][\A w \in ResolveCalls :
            call[w].pc = "direct" /\ DirectMatch(call[w].name) = {}
               /\ call'[w] # call[w] =>
                  call'[w].pc = "set" /\ call'[w].value = NOT_FOUND]_vars
    /\ [][\A w \in ResolveCalls :
            call[w].pc = "set" /\ call[w].value = NOT_FOUND /\ call'[w] # call[w] =>
               /\ Cached(ResolveKey(call[w].name))'
               /\ cache'[ResolveKey(call[w].name)] = NOT_FOUND
               /\ call'[w].result = None]_vars

\* A resolve answered not found from the sentinel while the datastore matches.
C3_Witness ==
    \E w \in ResolveCalls :
        /\ call[w].pc = "done"
        /\ call[w].cached_data = NOT_FOUND
        /\ call[w].result = None
        /\ HasMatch(call[w].name)

----------------------------------------------------------------------------
(* Properties of the lookups and the invalidations (SpecLookup)            *)

InvalidateModelDone(w) ==
    /\ call[w].pc = "invalidate" /\ call[w].op = "invalidate_model_cache"
    /\ call'[w].pc = "done"

PairKeys(a) ==
    IF a.provider_id # None /\ a.global_model_id # None
    THEN {ProviderGlobalKey(a.provider_id, a.global_model_id)} ELSE {}
NameKeys(a) ==
    IF a.provider_model_name # Empty THEN {ResolveKey(a.provider_model_name)} ELSE {}
AliasNamesOf(a) ==
    {a.provider_model_aliases[i].name : i \in 1..Len(a.provider_model_aliases)}

\* C4 as stated: invalidate_model_cache deletes exactly model:id:{id}, the
\* pair key when both ids are given, the resolve key of the provider-side
\* name when given and the resolve key of every alias name in the list, and
\* leaves every other entry unchanged.
C4_AsStated ==
    [][\A w \in Workers : InvalidateModelDone(w) =>
          LET a == call[w].args
          IN  cache' = CacheDelete({ModelIdKey(a.model_id)} \cup PairKeys(a) \cup NameKeys(a)
                                   \cup {ResolveKey(n) : n \in AliasNamesOf(a)})]_vars

\* C4: invalidate_model_cache deletes exactly model:id:{id}, the pair key
\* when both ids are given, the resolve key of the provider-side name when
\* given and, for every alias entry whose name is not empty once trimmed, the
\* resolve key of the trimmed name; every other entry is left unchanged.
C4_DeletesTrimmedAliasKeys ==
    [][\A w \in Workers : InvalidateModelDone(w) =>
          LET a == call[w].args
          IN  cache' = CacheDelete({ModelIdKey(a.model_id)} \cup PairKeys(a) \cup NameKeys(a)
                                   \cup {ResolveKey(strip(n)) :
                                            n \in {x \in AliasNamesOf(a) : strip(x) # Empty}})]_vars

\* An invalidation removed the four kinds of entry and left another in place.
C4_Witness ==
    \E w \in Workers :
        /\ call[w].pc = "done" /\ call[w].op = "invalidate_model_cache"
        /\ call[w].deleted = {ModelIdKey("m1"), ProviderGlobalKey("p1", "g1"),
                              ResolveKey(NameA), ResolveKey(NameAB)}
        /\ call[w].args.provider_model_aliases = <<AliasEntry(NameAB)>>
        /\ Cached(GlobalModelNameKey(NameAB))

LookupCalls == {w \in Workers : call[w].op \in GetOps}
ReadKey(c) == IF c.op = "resolve" THEN ResolveKey(c.name) ELSE GetKey(c.op, c.args)

\* C5: invalidate_global_model_cache deletes global_model:id:{id} and, only
\* when the name is given, global_model:name:{name} and
\* global_model:resolve:{name}, and no other key; a resolve or lookup that
\* starts while its key is absent goes to the datastore.
C5_GlobalModelKeysDeleted ==
    /\ [][\A w \in Workers :
            /\ call[w].pc = "invalidate" /\ call[w].op = "invalidate_global_model_cache"
            /\ call'[w].pc = "done"
            => LET a == call[w].args
               IN  cache' = CacheDelete(
                      {GlobalModelIdKey(a.global_model_id)}
                      \cup (IF a.name # Empty
                            THEN {GlobalModelNameKey(a.name), ResolveKey(a.name)}
                            ELSE {}))]_vars
    /\ [][\A w \in Workers :
            /\ call[w].pc \in {"idle", "done"}
            /\ call'[w] # call[w]
            /\ call'[w].op \in GetOps \/ (call'[w].op = "resolve" /\ call'[w].name # Empty)
            /\ ~Cached(ReadKey(call'[w]))
            => call'[w].pc \in {"query", "get_query"}]_vars
    /\ [](\A w \in ResolveCalls \cup LookupCalls :
            call[w].pc = "done" /\ call[w].cached_data = Missing => call[w].queries >= 1)

\* An invalidation with a name removed the three entries and left another.
C5_Witness ==
    \E w \in Workers :
        /\ call[w].pc = "done" /\ call[w].op = "invalidate_global_model_cache"
        /\ call[w].deleted = {GlobalModelIdKey("g2"), GlobalModelNameKey(NameAB),
                              ResolveKey(NameAB)}
        /\ cache # <<>>

\* C7: each of the four lookups is cache-first: a hit returns the object of
\* the cached snapshot with no datastore query and no write; a miss does one
\* datastore lookup and, when a row is found, writes its snapshot under the
\* operation's own key; when none is found it returns not found and leaves
\* the cache unchanged; no sentinel is ever stored under a lookup key.
C7_LookupsCacheFirst ==
    /\ [](\A w \in LookupCalls :
            /\ call[w].cached_data # Missing =>
                  /\ call[w].pc = "done"
                  /\ call[w].value = GetFromDict(call[w].op, call[w].cached_data)
                  /\ call[w].queries = 0 /\ call[w].writes = 0
            /\ call[w].cached_data = Missing /\ call[w].pc \in {"get_set", "done"} =>
                  /\ call[w].queries = 1
                  /\ call[w].writes =
                        IF call[w].pc = "done" /\ call[w].result # None THEN 1 ELSE 0
            /\ call[w].pc = "get_set" =>
                  call[w].result # None /\ call[w].value # NOT_FOUND)
    /\ [](\A key \in DOMAIN cache :
            cache[key] = NOT_FOUND => key.prefix = "global_model:resolve")
    /\ [][\A w \in LookupCalls :
            call[w].pc = "get_query" /\ call'[w] # call[w] =>
               /\ cache' = cache
               /\ IF GetLookup(call[w].op, call[w].args) = {}
                  THEN call'[w].pc = "done" /\ call'[w].result = None
                  ELSE /\ call'[w].pc = "get_set"
                       /\ call'[w].result \in GetLookup(call[w].op, call[w].args)
                       /\ call'[w].value = GetToDict(call[w].op, call'[w].result)]_vars
    /\ [][\A w \in LookupCalls :
            call[w].pc = "get_set" /\ call'[w] # call[w] =>
               /\ call'[w].pc = "done"
               /\ cache' = CacheSet(GetKey(call[w].op, call[w].args), call[w].value)]_vars

\* A lookup answered from the cache.
C7_Witness ==
    \E w \in LookupCalls :
        /\ call[w].pc = "done" /\ call[w].cache_hit
        /\ call[w].op = "get_model_by_provider_and_global_model"
        /\ call[w].result = "m1"
        /\ call[w].queries = 0

----------------------------------------------------------------------------
(* The work of one call (SpecLookup)                                       *)

\* C11 as stated: every call performs at most one cache read, at most one
\* datastore round trip and at most one cache write.
C11_AsStated ==
    \A w \in Workers :
        call[w].reads <= 1 /\ call[w].queries <= 1 /\ call[w].writes <= 1

\* C11: every call performs at most one cache read and at most one cache
\* write; a lookup performs at most one datastore round trip; a resolve
\* performs at most three: the mapping query (one round trip, two when it
\* falls back) and, when no row matched, the direct-match query; an
\* invalidation reads, queries and writes nothing.
C11_BoundedWork ==
    \A w \in Workers :
        /\ call[w].reads <= 1 /\ call[w].writes <= 1
        /\ call[w].op \in GetOps => call[w].queries <= 1
        /\ call[w].op \in {"invalidate_model_cache", "invalidate_global_model_cache"} =>
              call[w].reads = 0 /\ call[w].queries = 0 /\ call[w].writes = 0
        /\ call[w].op = "resolve" =>
              /\ call[w].queries <= 3
              /\ call[w].cache_hit => call[w].queries = 0 /\ call[w].writes = 0
              /\ Resolved(w) =>
                    /\ call[w].writes = 1
                    /\ call[w].queries =
                          IF call[w].method \in {"alias", "provider_model_name"}
                          THEN (IF dialect = "postgresql" THEN 1 ELSE 2)
                          ELSE (IF dialect = "postgresql" THEN 2 ELSE 3)

\* A resolve that fell back and then took the direct match: three round trips.
C11_Witness ==
    \E w \in Workers :
        /\ Resolved(w)
        /\ dialect = "sqlite"
        /\ call[w].method = "direct_match"
        /\ call[w].reads = 1 /\ call[w].queries = 3 /\ call[w].writes = 1

----------------------------------------------------------------------------
(* Concurrent resolves over an unchanging datastore (SpecConcurrent)       *)

\* What a resolution of n that reads no cache answers: the GlobalModel of the
\* least matching row, else the active GlobalModel named n, else nothing.
ActiveNamed(n) ==
    {g \in DOMAIN global_models : global_models[g].name = n /\ global_models[g].is_active}
UncachedResult(n) ==
    IF ReturnedRows(n) # {}
    THEN models[CHOOSE m \in ReturnedRows(n) :
                    \A k \in ReturnedRows(n) : TrimmedBefore(m, k, n)].global_model_id
    ELSE IF ActiveNamed(n) # {} THEN CHOOSE g \in ActiveNamed(n) : TRUE
    ELSE None

\* C12: with the datastore unchanged, every resolve, under every
\* interleaving of the cache reads, queries and writes of concurrent calls,
\* returns what an uncached resolution returns; whatever the resolve key of a
\* name holds is that result (its snapshot, or the sentinel for not found);
\* and once a call that missed has finished the key holds it.
C12_ConcurrentResolvesAgree ==
    /\ \A w \in ResolveCalls :
          call[w].pc = "done" =>
              /\ call[w].result = UncachedResult(call[w].name)
              /\ Cached(ResolveKey(call[w].name))
    /\ \A n \in CoreNames \ {Empty} :
          Cached(ResolveKey(n)) =>
              IF UncachedResult(n) = None
              THEN cache[ResolveKey(n)] = NOT_FOUND
              ELSE /\ IsSnapshot(cache[ResolveKey(n)])
                   /\ cache[ResolveKey(n)].id = UncachedResult(n)

\* Two calls for one name both missed, both queried and both wrote, with two
\* GlobalModels among the candidates.
C12_Witness ==
    /\ call["w1"].name = call["w2"].name
    /\ \A w \in Workers :
          /\ Resolved(w)
          /\ call[w].writes = 1
          /\ call[w].conflicts = 1
          /\ call[w].result = UncachedResult(call[w].name)
    /\ cache[ResolveKey(call["w1"].name)].id = call["w1"].result

----------------------------------------------------------------------------
(* Datastore errors inside a resolve (SpecFailure)                         *)

----------------------------------------------------------------------------
(* Properties of the header rule engine (SpecHeaders)                      *)

ApplyCall == engine.op = "apply"
ApplyDone == engine.op = "apply" /\ engine.pc = "done"
\* The call parsed a structured rule set and ran its steps to the end.
ApplyRan ==
    /\ ApplyDone /\ ~engine.raised
    /\ engine.rules.kind = "structured" /\ engine.rules.typed
    /\ engine.header_rules # EmptyRules
ValueOf(d, k) == d[CHOOSE i \in 1..Len(d) : d[i].name = k].value

\* C14 as stated: apply never raises to the caller: it returns the
\* transformed headers or the original headers.
C14_AsStated == ApplyCall => ~engine.raised

\* The three interplays of C15, each for a rule set holding only the kinds of
\* rule it names; strict is FALSE for the claim as worded and TRUE for the
\* claim with its two conditions on names that collide by case.
C15_RemoveThenAdd ==
    engine.rules.replace_name = <<>> /\ engine.rules.replace_value = <<>> =>
        \A i \in 1..Len(engine.rules.add) :
            (\E j \in 1..Len(engine.rules.remove) :
                engine.rules.remove[j] = engine.rules.add[i].name) =>
                /\ engine.rules.add[i].name \in Keys(engine.out)
                /\ ValueOf(engine.out, engine.rules.add[i].name) = engine.rules.add[i].value

C15_RenameThenValue(strict) ==
    /\ engine.rules.remove = <<>> /\ engine.rules.add = <<>>
    /\ Len(engine.rules.replace_name) = 1 /\ Len(engine.rules.replace_value) = 1
    /\ WellFormed(engine.rules.replace_value[1].fields)
    /\ FirstMatch(engine.headers, engine.rules.replace_name[1].name) # 0
    => LET old == engine.rules.replace_name[1].name
           new == engine.rules.replace_name[1].value
           key == engine.rules.replace_value[1].name
           i == FirstMatch(engine.headers, old)
           v == engine.headers[i].value
           alone == \A j \in 1..Len(engine.headers) :
                       j # i => lower(engine.headers[j].name) # lower(new)
       IN  /\ new \in Keys(engine.out)
           /\ key = new /\ (strict => alone) =>
                 ValueOf(engine.out, new) =
                    apply_replace_value(v, engine.rules.replace_value[1].fields).value
           /\ key = old /\ (strict => lower(old) # lower(new)) =>
                 ValueOf(engine.out, new) = v

C15_RenameThenAdd ==
    /\ engine.rules.remove = <<>> /\ engine.rules.replace_value = <<>>
    /\ Len(engine.rules.replace_name) = 1
    /\ FirstMatch(engine.headers, engine.rules.replace_name[1].name) # 0
    /\ \E i \in 1..Len(engine.rules.add) :
          engine.rules.add[i].name = engine.rules.replace_name[1].value
    => ValueOf(engine.out, engine.rules.replace_name[1].value) =
          engine.headers[FirstMatch(engine.headers, engine.rules.replace_name[1].name)].value

RemoveStep == ApplyCall /\ engine.pc = "remove" /\ engine'.pc = "replace_name"
RenameStep == ApplyCall /\ engine.pc = "replace_name" /\ engine'.pc = "replace_value"
AddStep == ApplyCall /\ engine.pc = "add" /\ engine'.pc = "done"
Items(d) == {d[i] : i \in 1..Len(d)}
\* d with the items named in names left out, the others in their order.
Without(d, names) == SelectSeq(d, LAMBDA e : e.name \notin names)

\* C16: the add step never overwrites: every header present before it is
\* still there with its name, value and position; an item of add is inserted
\* exactly when no header of exactly its name exists, also when a header
\* differing only in case exists; nothing else is inserted.
C16_AddNeverOverwrites ==
    [][AddStep =>
          /\ SubSeq(engine'.result, 1, Len(engine.result)) = engine.result
          /\ Keys(engine'.result) =
                Keys(engine.result) \cup Keys(engine.header_rules.add)
          /\ \A i \in 1..Len(engine.header_rules.add) :
                engine.header_rules.add[i].name \notin Keys(engine.result) =>
                    engine.header_rules.add[i] \in Items(engine'.result)
          /\ engine'.out = engine'.result]_vars

\* Header A was added next to header a, whose value the add left alone.
C16_Witness ==
    /\ ApplyRan
    /\ engine.rules.remove = <<>> /\ engine.rules.replace_name = <<>>
    /\ engine.rules.replace_value = <<>>
    /\ engine.rules.add = <<Item(HA, <<"b">>)>>
    /\ engine.headers = <<Item(Ha, <<"A">>)>>
    /\ engine.out = <<Item(Ha, <<"A">>), Item(HA, <<"b">>)>>

\* C17: after the remove step no header matches an entry of remove
\* case-insensitively, however many headers differ from it only in case, and
\* the headers matching no entry are all there, unchanged and in their order.
C17_RemoveCaseInsensitive ==
    [][RemoveStep =>
          LET gone == {k \in Keys(engine.result) :
                          \E j \in 1..Len(engine.header_rules.remove) :
                              lower(k) = lower(engine.header_rules.remove[j])}
          IN  /\ engine'.result = Without(engine.result, gone)
              /\ \A k \in Keys(engine'.result), j \in 1..Len(engine.header_rules.remove) :
                    lower(k) # lower(engine.header_rules.remove[j])]_vars

\* Headers a and A were both removed by the entry A, header b was kept.
C17_Witness ==
    /\ ApplyCall /\ engine.pc = "replace_name"
    /\ engine.header_rules.remove = <<HA>>
    /\ {Ha, HA} \subseteq Keys(engine.headers)
    /\ engine.result = <<>>

\* C18 as stated: a pair (old, new) renames only the first header matching
\* old case-insensitively: it is removed and its value stored under new; the
\* further headers matching old only by case stay as they are; with no match
\* nothing changes.
C18_AsStated ==
    [][RenameStep /\ Len(engine.header_rules.replace_name) = 1 =>
          LET old == engine.header_rules.replace_name[1].name
              new == engine.header_rules.replace_name[1].value
              i == FirstMatch(engine.result, old)
          IN  IF i = 0 THEN engine'.result = engine.result
              ELSE /\ Item(new, engine.result[i].value) \in Items(engine'.result)
                   /\ engine.result[i].name # new =>
                         engine.result[i].name \notin Keys(engine'.result)
                   /\ \A j \in 1..Len(engine.result) :
                         j # i /\ lower(engine.result[j].name) = lower(old) =>
                            engine.result[j] \in Items(engine'.result)]_vars

\* C18: a pair (old, new) renames only the first header matching old
\* case-insensitively: it is removed and its value stored under new, in the
\* place of a header already named exactly new, whose value is lost, and
\* else at the end; every other header stays as it is; with no match nothing
\* changes.
C18_RenamesFirstMatch ==
    [][RenameStep /\ Len(engine.header_rules.replace_name) = 1 =>
          LET old == engine.header_rules.replace_name[1].name
              new == engine.header_rules.replace_name[1].value
              i == FirstMatch(engine.result, old)
          IN  IF i = 0 THEN engine'.result = engine.result
              ELSE /\ Item(new, engine.result[i].value) \in Items(engine'.result)
                   /\ Keys(engine'.result) =
                         (Keys(engine.result) \ {engine.result[i].name}) \cup {new}
                   /\ Without(engine'.result, {new}) =
                         Without(engine.result, {new, engine.result[i].name})]_vars

\* Of the headers a and A only a, the first, was renamed to B.
C18_Witness ==
    /\ ApplyCall /\ engine.pc = "replace_value"
    /\ engine.header_rules.remove = <<>>
    /\ engine.header_rules.replace_name = <<Item(Ha, HB)>>
    /\ engine.headers = <<Item(Ha, <<"a", "b">>), Item(HA, <<"A">>)>>
    /\ engine.result = <<Item(HA, <<"A">>), Item(HB, <<"a", "b">>)>>

ReplaceValueStep == ApplyCall /\ engine.pc = "replace_value" /\ engine'.pc # "replace_value"
\* A parsed entry of replace_value with regex=true whose pattern does not
\* compile or whose substitution fails.
FailingRegex(value_rule) ==
    /\ WellFormed(value_rule.fields)
    /\ value_rule.fields.regex
    /\ ~Compiles(value_rule.fields.search) \/ BadTemplate(value_rule.fields.replace)

\* C19: an entry of replace_value with regex=true whose pattern does not
\* compile or whose substitution fails raises nothing and leaves the value
\* of its header as it is: the step ends as it would without the entry, the
\* other entries are applied, and when the entries are all such entries the
\* headers are unchanged and the add step follows.
C19_FailingRegexSkipped ==
    [][ReplaceValueStep =>
          LET replace_value == engine.header_rules.replace_value
              others == SelectSeq(replace_value, LAMBDA e : ~FailingRegex(e))
              r == ReplaceValues(engine.result, others)
          IN  /\ engine'.raised = r.raised
              /\ ~r.raised => engine'.pc = "add" /\ engine'.result = r.result
              /\ others = <<>> => engine'.pc = "add" /\ engine'.result = engine.result
              /\ \A i \in 1..Len(replace_value) :
                    /\ FailingRegex(replace_value[i])
                    /\ \A j \in 1..Len(replace_value) :
                          j # i => lower(replace_value[j].name) # lower(replace_value[i].name)
                    => \A h \in 1..Len(engine.result) :
                          lower(engine.result[h].name) = lower(replace_value[i].name) =>
                             engine'.result[h] = engine.result[h]]_vars

\* The pattern "[" left header a as it was, header B was rewritten by its
\* own entry and header b was added.
C19_Witness ==
    /\ ApplyRan
    /\ engine.rules.remove = <<>> /\ engine.rules.replace_name = <<>>
    /\ engine.rules.replace_value =
          <<MappingEntry(Ha, Rule(<<"[">>, <<"b">>, TRUE, TRUE)),
            MappingEntry(HB, Rule(<<"a">>, <<"b">>, FALSE, TRUE))>>
    /\ engine.rules.add = <<Item(Hb, <<"b">>)>>
    /\ engine.headers = <<Item(Ha, <<"a", "b">>), Item(HB, <<"a", "b">>)>>
    /\ engine.out = <<Item(Ha, <<"a", "b">>), Item(HB, <<"b", "b">>), Item(Hb, <<"b">>)>>

\* A rules value that is malformed: it does not parse, or an entry of its
\* replace_value is not a well-formed rule, or a regex of it does not compile.
Malformed(rules) ==
    \/ rules.kind \in {"none", "other"}
    \/ /\ rules.kind = "structured"
       /\ \/ ~rules.typed
          \/ \E i \in 1..Len(rules.replace_value) :
                LET entry == rules.replace_value[i]
                IN  \/ entry.form = "scalar"
                    \/ ~WellFormed(entry.fields)
                    \/ entry.fields.regex /\ ~Compiles(entry.fields.search)

\* C20 as stated: validate never raises and answers (false, message) for
\* every malformed rules value.
C20_AsStated ==
    engine.op = "validate" =>
        /\ ~engine.raised
        /\ Malformed(engine.rules) => ~engine.valid

----------------------------------------------------------------------------
(* merge_legacy_headers and the arguments of the caller                    *)

MergeCall == engine.op = "merge"
HasAddMap(rules) == Truthy(rules) /\ rules.add_form = "map"

\* C21 as stated: merge_legacy_headers returns a rule set whose keys other
\* than add are those of rules and whose add map holds headers[k] for every
\* k of headers and rules.add[k] for every k of rules.add that is not in
\* headers; the add map is created when rules has none and headers is not
\* empty; with both arguments absent the result is empty.
C21_AsStated ==
    MergeCall =>
        /\ ~engine.raised
        /\ engine.result.remove = (IF Truthy(engine.rules) THEN engine.rules.remove ELSE <<>>)
        /\ HasHeaders(engine.headers) =>
              /\ engine.result.add_form = "map"
              /\ Items(engine.headers.items) \subseteq Items(engine.result.add)
        /\ HasAddMap(engine.rules) =>
              /\ engine.result.add_form = "map"
              /\ \A i \in 1..Len(engine.rules.add) :
                    \/ HasHeaders(engine.headers)
                       /\ engine.rules.add[i].name \in Keys(engine.headers.items)
                    \/ engine.rules.add[i] \in Items(engine.result.add)
        /\ engine.headers.kind = "none" /\ engine.rules.kind = "none" =>
              engine.result = NoRules

\* C22 as stated: after apply_header_rules and after merge_legacy_headers
\* the headers and the rules of the caller, the add map of the rules
\* included, hold what they held before the call.
C22_AsStated ==
    /\ [](MergeCall => engine.headers_after = engine.headers
                       /\ engine.rules_after = engine.rules)
    /\ [][ApplyCall /\ engine'.op = "apply" =>
             engine'.headers = engine.headers /\ engine'.rules = engine.rules]_vars

----------------------------------------------------------------------------
(* extract_cache_creation_tokens: the tiers (SpecUsage)                    *)

ExtractCall == engine.op = "extract"
IsNested(usage) == usage.cache_creation.kind = "mapping"
IsFlat(usage) ==
    /\ ~IsNested(usage)
    /\ \/ usage.claude_cache_creation_5_m_tokens # Absent
       \/ usage.claude_cache_creation_1_h_tokens # Absent
NestedSum(usage) ==
    IntGet(usage.cache_creation.ephemeral_5m_input_tokens)
    + IntGet(usage.cache_creation.ephemeral_1h_input_tokens)
FlatSum(usage) ==
    IntGet(usage.claude_cache_creation_5_m_tokens)
    + IntGet(usage.claude_cache_creation_1_h_tokens)
Legacy(usage) == IntGet(usage.cache_creation_input_tokens)

\* C23: the tier is chosen by presence: when cache_creation is a mapping the
\* result is the same whatever the flat fields hold, also when the nested
\* sum is 0, and a positive nested sum is the result; otherwise, when a flat
\* key is there, even with the value 0, a positive flat sum is the result
\* and the value under cache_creation plays no part; otherwise the result is
\* the legacy field, 0 when it is not there.
C23_TierByPresence ==
    ExtractCall =>
        LET usage == engine.usage
        IN  /\ IsNested(usage) =>
                  /\ \A a \in OptionalTokens, b \in OptionalTokens :
                        extract_cache_creation_tokens(
                            [usage EXCEPT !.claude_cache_creation_5_m_tokens = a,
                                          !.claude_cache_creation_1_h_tokens = b])
                        = engine.result
                  /\ NestedSum(usage) > 0 => engine.result = NestedSum(usage)
                  /\ engine.result \in {NestedSum(usage), Legacy(usage), 0}
            /\ IsFlat(usage) =>
                  /\ FlatSum(usage) > 0 => engine.result = FlatSum(usage)
                  /\ engine.result \in {FlatSum(usage), Legacy(usage), 0}
                  /\ \A c \in NotNested :
                        extract_cache_creation_tokens([usage EXCEPT !.cache_creation = c])
                        = engine.result
            /\ ~IsNested(usage) /\ ~IsFlat(usage) => engine.result = Legacy(usage)

\* The nested sum is 0, the flat fields sum to 4 and the legacy field is 1:
\* the result is 1.
C23_Witness ==
    /\ ExtractCall
    /\ engine.usage.cache_creation = Nested(IntValue(0), Absent)
    /\ engine.usage.claude_cache_creation_5_m_tokens = IntValue(2)
    /\ engine.usage.claude_cache_creation_1_h_tokens = IntValue(2)
    /\ engine.usage.cache_creation_input_tokens = StrValue(1)
    /\ engine.result = 1

\* C24 as stated: when the sum of the nested or of the flat tier is not
\* greater than 0 the result is the legacy field as it is, 0 when it is not
\* there, whether it is positive, zero or negative.
C24_AsStated ==
    ExtractCall =>
        LET usage == engine.usage
        IN  \/ IsNested(usage) /\ NestedSum(usage) <= 0
            \/ IsFlat(usage) /\ FlatSum(usage) <= 0
            => engine.result = Legacy(usage)

----------------------------------------------------------------------------
(* Entries of an old shape under the resolve key (SpecStale)               *)

IsStale(d) == d # Missing /\ d # NOT_FOUND /\ ~IsSnapshot(d)

\* C25: a resolve that reads a dict without supported_capabilities under its
\* key does not return it: it goes on to the datastore, reports
\* cache_hit = FALSE, and ends having written over the entry the snapshot of
\* what the datastore gave, or the sentinel; a resolve that reads a snapshot
\* of the current shape returns it and makes no query.
C25_StaleShapeRefetched ==
    \A w \in ResolveCalls :
        LET c == call[w]
            key == ResolveKey(c.name)
        IN  /\ IsStale(c.cached_data) =>
                  /\ ~c.cache_hit
                  /\ c.pc = "done" =>
                        /\ c.queries >= 1 /\ c.writes = 1
                        /\ c.result = UncachedResult(c.name)
                        /\ cache[key] = c.value
                        /\ IF c.result = None THEN cache[key] = NOT_FOUND
                           ELSE IsSnapshot(cache[key]) /\ cache[key].id = c.result
            /\ IsSnapshot(c.cached_data) =>
                  /\ c.pc = "done" /\ c.cache_hit
                  /\ c.queries = 0 /\ c.writes = 0
                  /\ c.result = c.cached_data.id

\* The key of "a" held an old-shape dict naming g2; the call queried,
\* returned g1 and left the snapshot of g1 under the key.
C25_Witness ==
    /\ call["w1"].op = "resolve" /\ call["w1"].pc = "done"
    /\ call["w1"].name = NameA
    /\ call["w1"].cached_data = LegacyDict("g2", NameAB)
    /\ call["w1"].result = "g1"
    /\ ~call["w1"].cache_hit
    /\ cache[ResolveKey(NameA)] = global_model_to_dict("g1")

----------------------------------------------------------------------------
(* The full-scan fallback against the JSONB query (SpecFallback)           *)

\* The rows the JSONB query of lines 288-303 returns where it succeeds.
JsonbRows(n) ==
    {m \in ActiveJoin :
        \/ models[m].provider_model_name = n
        \/ JsonbContains(models[m].provider_model_aliases, n)}

\* C26 as stated: a resolution whose mapping query took the full-scan
\* fallback leaves the query step as one whose JSONB query succeeded would:
\* with the same candidate GlobalModel, the same method and the same conflict
\* signal, or on to the direct match when there is no candidate; and the
\* failure of the JSONB query is not raised to the caller.
C26_AsStated ==
    [][/\ call["w1"].pc = "query"
       /\ call'["w1"].pc # "query"
       /\ call'["w1"].caught # "none"
       => LET n == call["w1"].name
              matched == matched_rows(JsonbRows(n), n)
          IN  /\ ~call'["w1"].raised
              /\ IF matched = {} THEN call'["w1"].pc = "direct"
                 ELSE /\ call'["w1"].pc = "set"
                      /\ \E first \in SortedFirst(matched) :
                            /\ call'["w1"].result = first.gm
                            /\ call'["w1"].method = first.match_type
                      /\ call'["w1"].conflicts = (IF Conflict(matched) THEN 1 ELSE 0)]_vars

----------------------------------------------------------------------------
(* A resolve racing with a change and its invalidation (SpecRace)          *)

\* C27: the write of a resolve stores what the call's own query returned,
\* whatever the datastore holds by then and whichever invalidation has
\* completed since the query; the entry stays under the key until an
\* invalidation or its expiry removes it or a resolve that had missed
\* replaces it; and a resolve that reads it returns it with no query.
C27_StaleWriteAfterInvalidation ==
    /\ [][\A w \in ResolveCalls :
            call[w].pc = "set" /\ call'[w].pc = "done" =>
               /\ Cached(ResolveKey(call[w].name))'
               /\ cache'[ResolveKey(call[w].name)] = call[w].value]_vars
    /\ [][\A n \in CoreNames \ {Empty} :
            Cached(ResolveKey(n)) /\ cache' # cache =>
               \/ Cached(ResolveKey(n))' /\ cache'[ResolveKey(n)] = cache[ResolveKey(n)]
               \/ ~Cached(ResolveKey(n))'
               \/ \E w \in ResolveCalls :
                     call[w].pc = "set" /\ call[w].name = n /\ ~call[w].cache_hit]_vars
    /\ [](\A w \in ResolveCalls :
            call[w].cached_data # Missing /\ call[w].cached_data # NOT_FOUND =>
               /\ call[w].pc = "done" /\ call[w].queries = 0
               /\ call[w].result = call[w].cached_data.id)

\* Model m2 has gained the alias "a" and the invalidation issued for it has
\* completed; w1, whose query came before the change, has since written
\* GlobalModel g1 under the key of "a", where the datastore now gives g2.
C27_Witness ==
    /\ call["w2"].op = "invalidate_model_cache" /\ call["w2"].pc = "done"
    /\ call["w2"].args.provider_model_aliases = <<AliasEntry(NameA)>>
    /\ call["w1"].op = "resolve" /\ call["w1"].pc = "done"
    /\ call["w1"].name = NameA /\ call["w1"].writes = 1
    /\ call["w1"].result = "g1"
    /\ UncachedResult(NameA) = "g2"
    /\ Cached(ResolveKey(NameA))
    /\ cache[ResolveKey(NameA)] = global_model_to_dict("g1")

----------------------------------------------------------------------------
(* Resolve keys of alias names and invalidate_global_model_cache           *)
(* (SpecAliasKeys)                                                         *)

InvalidateStep(w, op) ==
    /\ call[w].op = op
    /\ call[w].pc = "invalidate" /\ call'[w].pc = "done"

\* C28: invalidate_global_model_cache(id, name) leaves every resolve key
\* other than that of name as it is, the keys of alias and provider-side
\* names holding a snapshot of that GlobalModel among them; a resolve that
\* reads such a snapshot returns it with no query, also when the GlobalModel
\* has been deactivated since; invalidate_model_cache removes the resolve
\* keys of the names it is given.
C28_AliasKeysSurvive ==
    /\ [][\A w \in Workers :
            InvalidateStep(w, "invalidate_global_model_cache") =>
               \A n \in CoreNames \ {Empty, call[w].args.name} :
                  /\ Cached(ResolveKey(n))' = Cached(ResolveKey(n))
                  /\ Cached(ResolveKey(n)) => cache'[ResolveKey(n)] = cache[ResolveKey(n)]]_vars
    /\ [](\A w \in ResolveCalls :
            IsSnapshot(call[w].cached_data) =>
               /\ call[w].pc = "done" /\ call[w].cache_hit
               /\ call[w].queries = 0
               /\ call[w].result = call[w].cached_data.id)
    /\ [][\A w \in Workers :
            InvalidateStep(w, "invalidate_model_cache") =>
               \A i \in 1..Len(call[w].args.provider_model_aliases) :
                  ~Cached(ResolveKey(strip(call[w].args.provider_model_aliases[i].name)))']_vars

\* GlobalModel g2 is deactivated and the invalidation issued for it has
\* completed; the key of its alias "a" still holds its snapshot, which a
\* resolve of "a" returned with no query, where the datastore now gives g1.
C28_Witness ==
    /\ ~global_models["g2"].is_active
    /\ call["w2"].op = "invalidate_global_model_cache" /\ call["w2"].pc = "done"
    /\ call["w2"].args.name = NameAB
    /\ Cached(ResolveKey(NameA))
    /\ cache[ResolveKey(NameA)].id = "g2"
    /\ UncachedResult(NameA) = "g1"
    /\ call["w1"].op = "resolve" /\ call["w1"].pc = "done"
    /\ call["w1"].name = NameA /\ call["w1"].cache_hit
    /\ call["w1"].queries = 0
    /\ call["w1"].result = "g2"

====
